---- MODULE Spec2Model ----
(***************************************************************************)
(* ACAI: buffered Channel Access callbacks (buffered_callbacks.c) and the  *)
(* ACAI::Client channel state machine (acai_client.cpp).                   *)
(*                                                                         *)
(* SpecQ  - the callback queue on its own: producer threads call the three *)
(*          buffered_*_handler functions with arbitrary arguments, one     *)
(*          consumer thread calls process_buffered_callbacks and           *)
(*          clear_all_buffered_callbacks.                                  *)
(* Spec   - the clients, the Channel Access library they call and the      *)
(*          queue between the library's threads and the application.       *)
(***************************************************************************)
EXTENDS Integers, Sequences, FiniteSets, TLC

(***************************************************************************)
(* Bounds of the model.                                                    *)
(***************************************************************************)
\* handler invocations (queue items ever allocated) in SpecQ
MaxItemsQ == 4
\* the same in SpecLock
MaxItemsLock == 3
\* the depth the linked list must exceed before duplicates are searched for;
\* scaled down from the default of 1000 (buffered_callbacks.c:85)
multiple_check_limit == 2
\* largest max argument passed to process_buffered_callbacks
MaxProcess == 2

NULL == 0

\* notifications the library delivers in Spec
MaxItems == 3
\* writes with a callback that the library holds unanswered
MaxPuts == 2
\* calls of Client functions the application makes
MaxCalls == 5
\* the same in SpecData and SpecObs
MaxCallsSpec == 4
\* and in Spec, with two clients
MaxCallsTwo == 3
\* and in SpecUpd
MaxCallsUpd == 3
\* calls of number_of_discarded_updates in SpecDiscard
MaxCallsDiscard == 2

Producers == {"p1", "p2"}
Clients == {"c1", "c2"}
NullClient == "NULL"
Chids == {1, 2}
\* ca_element_count of the process variable: 6 doubles exceed the local buffer
HostElementCount == 6

\* the Client_Set objects of the application: s1 plain, s2 with deepDestruction
SetIds == {"s1", "s2"}
\* Client_Set::Client_Set (deepDestruction), the set empty
NewSet(deep) == [clientList |-> {}, deepDestruction |-> deep, live |-> TRUE]

\* the Abstract_Client_User objects; std::set orders them by address
Users == {1, 2}
\* registeredUsers.end ()
End == 0

VARIABLES
  linked_list_mutex,    \* NULL until initialise_buffered_callbacks
  linked_list,          \* the queued Callback_Items, head first
  allocate_fail_count,
  discard_count,
  prod,                 \* per producer thread: the item allocated and not yet loaded
  cons,                 \* the consumer thread: position, n, max, pci, result
  loads,                \* number of items appended so far
  dispatched,           \* seq numbers of the items handed to an application handler
  coalesced,            \* seq numbers of the items removed by the duplicate search
  heap,                 \* the live copies of args.dbr: [id, val, count]
  mutex_owner,          \* the thread between epicsMutexLock and epicsMutexUnlock
  fail_reg,             \* per producer thread: allocate_fail_count as read by its ++
  client,               \* per Client: the fields of the object and its PrivateData
  ca,                   \* the Channel Access library: channels and requests
  unique_id,            \* the static counter of uniqueFunctionArg
  fired,                \* the hooks called, in order, by the last step
  reported,             \* per Client: the last connection state passed to its hook
  last,                 \* the putData call made by the last step, if any
  fault,                \* a block or handle was released that was not live
  freed_in_use,         \* updateBuffer freed a block dataValues still referred to
  calls,                \* number of calls of Client functions so far
  registeredUsers,      \* per Client: the set of users registered with it
  registeredClients,    \* per user: the Client_Set of its registered clients
  userLive,             \* per user: constructed and not yet destroyed
  handler,              \* per Client: the hooks with a function-pointer handler
  delivered,            \* the callbacks called, in order, by the last step
  propagated,           \* an exception has left one of the call... functions
  iter_fault,           \* the last step used an invalidated iterator of a std::set
  client_set,           \* per Client_Set object: clientList, deepDestruction, live
  deletes               \* per Client: how often delete was applied to it by a Client_Set

qvars == <<linked_list_mutex, linked_list, allocate_fail_count, discard_count,
           prod, cons, loads, dispatched, coalesced, heap, mutex_owner, fail_reg>>

ovars == <<registeredUsers, registeredClients, userLive, handler, propagated,
           client_set, deletes>>

cvars == <<client, ca, unique_id, reported, fault, freed_in_use, ovars>>

vars == <<qvars, cvars, fired, last, calls, delivered, iter_fault>>

(***************************************************************************)
(* Callback_Items (buffered_callbacks.c:67-76).  seq is the position in    *)
(* the order of appending; above records that ellCount exceeded the        *)
(* multiple check limit when the item was appended; owner is the Client    *)
(* whose channel the notification was produced for and stale records that  *)
(* this channel has been cleared since.                                    *)
(***************************************************************************)
NoItem == [kind |-> "NULL_KIND"]

connection_item(args) ==
  [kind |-> "CONNECTION", chid |-> args.chid, op |-> args.op, type |-> "",
   usr |-> NULL, status |-> "", count |-> 0, val |-> 0, dbr |-> NULL,
   meta |-> 0, severity |-> 0, stamp |-> 0,
   text |-> "", seq |-> 0, above |-> FALSE, owner |-> args.owner, stale |-> FALSE]

event_item(args, dbr) ==
  [kind |-> "EVENT", chid |-> args.chid, op |-> "", type |-> args.type,
   usr |-> args.usr, status |-> args.status, count |-> args.count,
   val |-> args.val, dbr |-> dbr, meta |-> args.meta, severity |-> args.severity,
   stamp |-> args.stamp, text |-> "", seq |-> 0, above |-> FALSE,
   owner |-> args.owner, stale |-> FALSE]

printf_item(text) ==
  [kind |-> "PRINTF", chid |-> NULL, op |-> "", type |-> "", usr |-> NULL,
   status |-> "", count |-> 0, val |-> 0, dbr |-> NULL, meta |-> 0,
   severity |-> 0, stamp |-> 0, text |-> text,
   seq |-> 0, above |-> FALSE, owner |-> NullClient, stale |-> FALSE]

\* malloc returns a block that is not live; the lowest address stands for any
malloc(h) == CHOOSE b \in 1..(Cardinality(h) + 1) : \A x \in h : x.id # b

\* free of a block; free (NULL) is never called
free(h, b) == {x \in h : x.id # b}

\* the copy of args.dbr that buffered_event_handler mallocs for an item
dbr_block(item) == [id |-> item.dbr, val |-> item.val, count |-> item.count]

ellCount(list) == Len(list)

\* ellAdd appends at the tail
ellAdd(list, node) == Append(list, node)

\* ellDelete unlinks the node at position i
ellDelete(list, i) == SubSeq(list, 1, i - 1) \o SubSeq(list, i + 1, Len(list))

\* ellGet removes and returns the head node
ellGet_tail(list) == IF list = <<>> THEN [node |-> NoItem, list |-> list]
                     ELSE [node |-> list[Len(list)], list |-> SubSeq(list, 1, Len(list) - 1)]
ellGet(list) == IF list = <<>> THEN [node |-> NoItem, list |-> list]
                ELSE [node |-> Head(list), list |-> Tail(list)]

\* the test of the duplicate search: kind, chid, type and usr must match
is_duplicate_any(ci, pci) == TRUE
is_duplicate(ci, pci) ==
  ci.kind = "EVENT" /\ ci.chid = pci.chid /\ ci.type = pci.type /\ ci.usr = pci.usr

\* the condition under which load_element searches at all
search_wanted(list, pci) ==
  pci.kind = "EVENT" /\ ellCount(list) > multiple_check_limit

\* the first node, from the head, that the search stops at (0: none)
first_duplicate_last(list, pci) ==
  LET m == {i \in 1..Len(list) : is_duplicate(list[i], pci)}
  IN IF m = {} THEN 0 ELSE CHOOSE i \in m : \A j \in m : j <= i
first_duplicate(list, pci) ==
  LET m == {i \in 1..Len(list) : is_duplicate(list[i], pci)}
  IN IF m = {} THEN 0 ELSE CHOOSE i \in m : \A j \in m : i <= j

(***************************************************************************)
(* ACAI::Client and its PrivateData (acai_client.cpp).  The functions of   *)
(* the class are operators on a record W of everything the application     *)
(* thread can change: the clients, the Channel Access library's state, the *)
(* heap, the token counter and the notifications dispatched by the         *)
(* current call.                                                           *)
(***************************************************************************)
MAGIC_NUMBER_C == 896117921
MAGIC_NUMBER_P == 305441953

\* sizeof (dbr_string_t): the size of PrivateData::localBuffer
MINIMUM_BUFFER_SIZE == 40

\* dataValues.genericRef = &localBuffer; any other value is a heap block
LocalBuffer == 0

\* dbr_value_size [type] for the DOUBLE request types
dbr_value_size(type) == 8

dbr_type_is_valid_any(type) == TRUE

dbr_type_is_valid(type) ==
  type \in {"DBR_CTRL_DOUBLE", "DBR_TIME_DOUBLE", "DBR_PUT_ACKT"}

NoPayload == [val |-> 0, count |-> 0]

\* a Client as the constructors leave it; the members between firstMember and
\* lastMember are zeroised: the field type 0 is ClientFieldSTRING, meta stands
\* for precision, units, num_states, enum_strings and the limits, severity
\* for status and severity
NewClient ==
  [magic_number |-> MAGIC_NUMBER_C, pd_magic_number |-> MAGIC_NUMBER_P,
   pv_name |-> "PV", channel_id |-> NULL, event_id |-> NULL,
   connectionStatus |-> "csNull", lastIsConnected |-> FALSE,
   use_put_callback |-> FALSE, pending_put_callback |-> FALSE,
   getFuncArg |-> NULL, subFuncArg |-> NULL, putFuncArg |-> NULL,
   is_first_update |-> FALSE, channel_element_count |-> 0,
   request_element_count_defined |-> FALSE, request_element_count |-> 0,
   data_element_count |-> 0, logical_data_size |-> 0,
   dataValues |-> LocalBuffer, argsDbr |-> NULL, localBuffer |-> NoPayload,
   payload |-> NoPayload, data_field_type |-> "ClientFieldSTRING",
   severity |-> 0, timeStamp |-> 0, meta |-> 0]

\* the channel a chid refers to, as the library leaves it after ca_clear_channel
NoChannel == [live |-> FALSE, puser |-> NullClient, up |-> FALSE]

isConnected(W, c) == W.client[c].connectionStatus = "csConnected"

(***************************************************************************)
(* What the application's callbacks do when called is W.script: for the    *)
(* Client's own hook, for each user and for the function-pointer handler   *)
(* one of return, throw, or register / deregister user u with the calling  *)
(* Client before returning.  W.script.wild is where an invalidated         *)
(* iterator of registeredUsers turns out to point after its increment.     *)
(***************************************************************************)
Return == [act |-> "return", u |-> End]

Acts == {Return, [act |-> "throw", u |-> End]}
          \cup [act : {"register", "deregister"}, u : Users]

NoScript == [own |-> Return, user |-> [u \in Users |-> Return], handler |-> Return,
             wild |-> End]

\* Client::registerUser and Client::deregisterUser
registerUser(W, c, u) == [W EXCEPT !.registeredUsers[c] = @ \cup {u}]

deregisterUser(W, c, u) == [W EXCEPT !.registeredUsers[c] = @ \ {u}]

\* Abstract_Client_User::registerClient and deregisterClient: both directions
registerClient(W, u, c) ==
  [registerUser(W, c, u) EXCEPT !.registeredClients[u] = @ \cup {c}]

deregisterClient(W, u, c) ==
  [deregisterUser(W, c, u) EXCEPT !.registeredClients[u] = @ \ {c}]

\* begin () of a std::set and the increment of a valid iterator
begin(S) == IF S = {} THEN End ELSE CHOOSE x \in S : \A y \in S : x <= y

increment(S, it) == begin({x \in S : x > it})

\* the call of one callback: it is logged, then does what the script says
Callback(W, to, u, kind, c, arg, b) ==
  LET W1 == [W EXCEPT !.delivered =
                        Append(@, [to |-> to, user |-> u, kind |-> kind, c |-> c,
                                   arg |-> arg])]
  IN IF b.act = "throw" THEN [W1 EXCEPT !.thrown = TRUE]
     ELSE IF b.act = "register" /\ W.userLive[b.u] THEN registerClient(W1, b.u, c)
     ELSE IF b.act = "deregister" /\ W.userLive[b.u] THEN deregisterClient(W1, b.u, c)
     ELSE W1

\* ACAI_ITERATE over registeredUsers itself, from iterator it on; an exception
\* leaves the loop
RECURSIVE iterate_users(_, _, _, _, _)
iterate_users(W, kind, c, arg, it) ==
  IF it = End THEN W
  ELSE LET W1 == Callback([W EXCEPT !.script.user[it] = Return], "user", it, kind, c, arg,
                          W.script.user[it])
           valid == it \in W1.registeredUsers[c]
           wild == IF W1.script.wild \in W1.registeredUsers[c] THEN W1.script.wild ELSE End
       IN IF W1.thrown THEN W1
          ELSE IF valid
            THEN iterate_users(W1, kind, c, arg, increment(W1.registeredUsers[c], it))
          ELSE iterate_users([W1 EXCEPT !.iter_fault = TRUE, !.script.wild = End],
                             kind, c, arg, wild)

\* without the catch clauses
ACAI_CATCH_EXCEPTION_none(W, c) == [W EXCEPT !.propagated = @ \/ W.thrown]

\* both catch clauses write to std::cerr, and the function returns normally
ACAI_CATCH_EXCEPTION(W, c) ==
  IF W.thrown
    THEN [W EXCEPT !.thrown = FALSE,
                   !.fired = Append(@, [kind |-> "exception", c |-> c, arg |-> FALSE])]
    ELSE W

\* with the handler called before the registered users
notify_handler_first(W, kind, c, arg) ==
  LET W1 == Callback(W, "own", End, kind, c, arg, W.script.own)
      W2 == IF ~ W1.thrown /\ kind \in W1.handler[c]
              THEN Callback(W1, "handler", End, kind, c, arg, W1.script.handler)
              ELSE W1
      W3 == IF W2.thrown THEN W2
            ELSE iterate_users(W2, kind, c, arg, begin(W2.registeredUsers[c]))
  IN ACAI_CATCH_EXCEPTION(W3, c)

\* the try block of callConnectionUpdate, callDataUpdate and
\* callPutCallbackNotifcation: own hook, registered users, handler
notify(W, kind, c, arg) ==
  LET W1 == Callback(W, "own", End, kind, c, arg, W.script.own)
      W2 == IF W1.thrown THEN W1
            ELSE iterate_users(W1, kind, c, arg, begin(W1.registeredUsers[c]))
      W3 == IF ~ W2.thrown /\ kind \in W2.handler[c]
              THEN Callback(W2, "handler", End, kind, c, arg, W2.script.handler)
              ELSE W2
  IN ACAI_CATCH_EXCEPTION(W3, c)

\* a call of one of the notification hooks, or of reportError
Fire(W, kind, c, arg) ==
  LET W1 == [W EXCEPT !.fired = Append(@, [kind |-> kind, c |-> c, arg |-> arg]),
                      !.reported = IF kind = "connection" THEN [@ EXCEPT ![c] = <<arg>>]
                                   ELSE @]
  IN IF c = NullClient THEN W1 ELSE notify(W1, kind, c, arg)

reportError(W) == Fire(W, "error", NullClient, FALSE)

callConnectionUpdate_always(W, c) ==
  Fire([W EXCEPT !.client[c].lastIsConnected = isConnected(W, c)],
       "connection", c, isConnected(W, c))

\* only a change of isConnected () is passed on
callConnectionUpdate(W, c) ==
  IF W.client[c].lastIsConnected = isConnected(W, c) THEN W
  ELSE Fire([W EXCEPT !.client[c].lastIsConnected = isConnected(W, c)],
            "connection", c, isConnected(W, c))

callDataUpdate(W, c, firstUpdate) == Fire(W, "data", c, firstUpdate)

callPutCallbackNotifcation(W, c, isSuccessful) == Fire(W, "put", c, isSuccessful)

\* with a counter that stands still
uniqueFunctionArg_same(W) == [W EXCEPT !.unique_id = 1]

\* static size_t id; id++
uniqueFunctionArg(W) == [W EXCEPT !.unique_id = @ + 1]

\* free () as the client calls it; freeing a block that is not live is a fault
client_free(W, b) ==
  [W EXCEPT !.heap = free(@, b),
            !.fault = @ \/ ~ \E x \in W.heap : x.id = b]

clearBuffer(W, c) ==
  LET W1 == IF W.client[c].argsDbr # NULL THEN client_free(W, W.client[c].argsDbr)
            ELSE W
  IN [W1 EXCEPT !.client[c].argsDbr = NULL,
                !.client[c].dataValues = LocalBuffer,
                !.client[c].logical_data_size = 0,
                !.client[c].data_element_count = 0]

\* memcpy (dest, valuesPtr, length): into the local buffer or into a heap block
memcpy(W, c, dest, args) ==
  IF dest = LocalBuffer
    THEN [W EXCEPT !.client[c].localBuffer = [val |-> args.val, count |-> args.count]]
    ELSE [W EXCEPT !.heap = {IF x.id = dest THEN [x EXCEPT !.val = args.val] ELSE x :
                               x \in @},
                   !.fault = @ \/ ~ \E x \in W.heap : x.id = dest]

\* updateBuffer without the clearing of args.dbr in the large branch
updateBuffer_shared(W, c, args) ==
  LET copyArgsDbr == W.client[c].argsDbr
      small == dbr_value_size(args.type) * args.count <= MINIMUM_BUFFER_SIZE
      W1 == IF small
              THEN [memcpy(W, c, W.client[c].dataValues, args)
                      EXCEPT !.client[c].argsDbr = NULL,
                             !.client[c].dataValues = LocalBuffer]
              ELSE [W EXCEPT !.client[c].argsDbr = args.dbr,
                             !.client[c].dataValues = args.dbr]
      W2 == IF copyArgsDbr # NULL THEN client_free(W1, copyArgsDbr) ELSE W1
  IN [W |-> W2, dbr |-> args.dbr]

\* updateBuffer: W is the world afterwards, dbr is args.dbr afterwards (NULL
\* when the client has taken the block over).  freed_in_use records that the
\* old block was freed while dataValues still referred to it.
updateBuffer(W, c, args) ==
  LET copyArgsDbr == W.client[c].argsDbr
      small == dbr_value_size(args.type) * args.count <= MINIMUM_BUFFER_SIZE
      W1 == IF small
              THEN [memcpy(W, c, W.client[c].dataValues, args)
                      EXCEPT !.client[c].argsDbr = NULL,
                             !.client[c].dataValues = LocalBuffer]
              ELSE [W EXCEPT !.client[c].argsDbr = args.dbr,
                             !.client[c].dataValues = args.dbr]
      W2 == IF copyArgsDbr # NULL
              THEN [client_free(W1, copyArgsDbr) EXCEPT
                      !.freed_in_use = @ \/ W1.client[c].dataValues = copyArgsDbr]
              ELSE W1
  IN [W |-> W2, dbr |-> IF small THEN args.dbr ELSE NULL]

(***************************************************************************)
(* The Channel Access library, as far as the client calls it.              *)
(***************************************************************************)
Min(a, b) == IF a <= b THEN a ELSE b

\* ca_create_channel: h is the chid the library hands out
ca_create_channel(W, c, h) ==
  [W EXCEPT !.ca.chan[h] = [live |-> TRUE, puser |-> c, up |-> FALSE]]

\* ca_clear_channel: the channel and every request on it are gone
ca_clear_channel(W, h) ==
  [W EXCEPT !.ca.chan[h] = NoChannel,
            !.ca.gets = {g \in @ : g.chid # h},
            !.ca.subs = {s \in @ : s.chid # h},
            !.ca.puts = SelectSeq(@, LAMBDA q : q.chid # h),
            !.cleared = @ \cup {h},
            !.fault = @ \/ ~ W.ca.chan[h].live]

ca_array_get_callback(W, h, usr, count) ==
  [W EXCEPT !.ca.gets = @ \cup {[chid |-> h, usr |-> usr, count |-> count]}]

\* the evid handed out is the subscription's own token
ca_create_subscription(W, h, usr, count) ==
  [W EXCEPT !.ca.subs = @ \cup {[evid |-> usr, chid |-> h, usr |-> usr,
                                 count |-> count]}]

ca_clear_subscription(W, evid) ==
  [W EXCEPT !.ca.subs = {s \in @ : s.evid # evid},
            !.fault = @ \/ ~ \E s \in W.ca.subs : s.evid = evid]

ca_array_put_callback(W, h, usr) ==
  [W EXCEPT !.ca.puts = Append(@, [chid |-> h, usr |-> usr])]

\* what ca_puser can return: the user pointer of a live channel, anything
\* for a chid whose channel has been cleared
ca_puser(W, h) ==
  IF h = NULL THEN {NullClient}
  ELSE IF W.ca.chan[h].live THEN {W.ca.chan[h].puser}
  ELSE {NullClient} \cup Clients

\* requests on a channel that is not connected fail with ECA_DISCONN
ca_status(W, h, ok) ==
  IF ok /\ W.ca.chan[h].up THEN "ECA_NORMAL" ELSE "ECA_DISCONN"

(***************************************************************************)
(* ACAI::Client: channel operations                                        *)
(***************************************************************************)
unsubscribeChannel(W, c) ==
  IF W.client[c].event_id # NULL
    THEN [ca_clear_subscription(W, W.client[c].event_id)
            EXCEPT !.client[c].event_id = NULL, !.client[c].subFuncArg = NULL]
    ELSE W

\* ext.get and ext.sub are what the two library calls can answer
readSubscribeChannel(W, c, readMode, ext) ==
  LET d == W.client[c]
      count == IF d.request_element_count_defined
                 THEN Min(d.channel_element_count, d.request_element_count)
                 ELSE d.channel_element_count
  IN IF d.channel_element_count = 0 THEN [W |-> W, result |-> FALSE]
     ELSE IF ca_status(W, d.channel_id, ext.get) # "ECA_NORMAL"
       THEN [W |-> reportError(W), result |-> FALSE]
     ELSE LET W1 == ca_array_get_callback(W, d.channel_id, d.getFuncArg, count)
              W2 == uniqueFunctionArg(W1)
              W3 == [W2 EXCEPT !.client[c].subFuncArg = W2.unique_id]
          IN IF readMode # "Subscribe" THEN [W |-> W1, result |-> TRUE]
             ELSE IF ~ ext.sub THEN [W |-> reportError(W3), result |-> FALSE]
             ELSE [W |-> [ca_create_subscription(W3, d.channel_id, W2.unique_id, count)
                            EXCEPT !.client[c].event_id = W2.unique_id],
                   result |-> TRUE]

\* openChannel without the test of the name
openChannel_any_name(W, c, h) ==
  IF h = NULL THEN [W |-> reportError(W), result |-> FALSE]
  ELSE [W |-> [ca_create_channel(W, c, h) EXCEPT
                 !.client[c].channel_id = h,
                 !.client[c].connectionStatus = "csPending"],
        result |-> TRUE]

\* h = NULL: ca_create_channel fails
openChannel(W, c, h) ==
  IF W.client[c].pv_name = "" THEN [W |-> W, result |-> TRUE]
  ELSE IF h = NULL THEN [W |-> reportError(W), result |-> FALSE]
  ELSE [W |-> [ca_create_channel(W, c, h) EXCEPT
                 !.client[c].channel_id = h,
                 !.client[c].connectionStatus = "csPending"],
        result |-> TRUE]

\* closeChannel without the call of clearBuffer
closeChannel_keeps_buffer(W, c) ==
  LET W1 == unsubscribeChannel(W, c)
      W2 == IF W1.client[c].channel_id # NULL
              THEN [ca_clear_channel(W1, W1.client[c].channel_id)
                      EXCEPT !.client[c].channel_id = NULL]
              ELSE W1
      W3 == [W2 EXCEPT !.client[c].connectionStatus = "csNull",
                       !.client[c].pending_put_callback = FALSE]
  IN callConnectionUpdate(W3, c)

closeChannel(W, c) ==
  LET W1 == unsubscribeChannel(W, c)
      W2 == IF W1.client[c].channel_id # NULL
              THEN [ca_clear_channel(W1, W1.client[c].channel_id)
                      EXCEPT !.client[c].channel_id = NULL]
              ELSE W1
      W3 == [W2 EXCEPT !.client[c].connectionStatus = "csNull",
                       !.client[c].pending_put_callback = FALSE]
  IN callConnectionUpdate(clearBuffer(W3, c), c)

reopenChannel(W, c, h) == openChannel(closeChannel(W, c), c, h)

reReadChannel(W, c, ext) ==
  IF isConnected(W, c) THEN readSubscribeChannel(W, c, "SingleRead", ext)
  ELSE [W |-> W, result |-> FALSE]

\* the test of putData without that of the outstanding flag
putData_accepts_pending(W, c) ==
  isConnected(W, c) /\ W.client[c].channel_id # NULL

\* the write is accepted: putData gets as far as issuing it
putData_accepts(W, c) ==
  /\ isConnected(W, c)
  /\ W.client[c].channel_id # NULL
  /\ ~ (W.client[c].use_put_callback /\ W.client[c].pending_put_callback)

\* issued: a write has been handed to the library; result: what putData returns
putData(W, c, ok) ==
  LET d == W.client[c]
      status == ca_status(W, d.channel_id, ok)
  IN IF ~ isConnected(W, c) \/ d.channel_id = NULL
       THEN [W |-> W, issued |-> FALSE, result |-> FALSE]
     ELSE IF ~ putData_accepts(W, c)
       THEN [W |-> reportError(W), issued |-> FALSE, result |-> FALSE]
     ELSE IF d.use_put_callback
       THEN [W |-> [(IF status = "ECA_NORMAL"
                       THEN ca_array_put_callback(W, d.channel_id, d.putFuncArg)
                       ELSE W)
                      EXCEPT !.client[c].pending_put_callback = (status = "ECA_NORMAL")],
             issued |-> TRUE, result |-> status = "ECA_NORMAL"]
     ELSE [W |-> W, issued |-> TRUE, result |-> status = "ECA_NORMAL"]

clearPendingPutCallback(W, c) ==
  IF W.client[c].pending_put_callback
    THEN callPutCallbackNotifcation(
           [W EXCEPT !.client[c].pending_put_callback = FALSE], c, FALSE)
    ELSE W

\* rawDataPointer / getRawData: the value the read pointer yields
rawData(c) ==
  IF client[c].dataValues = LocalBuffer THEN client[c].localBuffer.val
  ELSE IF \E x \in heap : x.id = client[c].dataValues
    THEN (CHOOSE x \in heap : x.id = client[c].dataValues).val
  ELSE -1

dataIsAvailable(c) ==
  client[c].connectionStatus = "csConnected" /\ client[c].logical_data_size > 0

\* without the call of removeClientFromList for each user
removeClientFromAllUserLists_clear_only(W, c) ==
  [W EXCEPT !.registeredUsers[c] = {},
            !.fault = @ \/ \E u \in W.registeredUsers[c] : ~ W.userLive[u]]

\* the Client is about to be deleted: every registered user forgets it.
\* Calling a user that has been destroyed is a fault.
removeClientFromAllUserLists(W, c) ==
  [W EXCEPT !.registeredClients =
               [u \in Users |-> IF u \in W.registeredUsers[c] THEN @[u] \ {c} ELSE @[u]],
            !.registeredUsers[c] = {},
            !.fault = @ \/ \E u \in W.registeredUsers[c] : ~ W.userLive[u]]

\* ~Client and ~PrivateData
destroy(W, c) ==
  [clearBuffer(removeClientFromAllUserLists(
                 closeChannel(unsubscribeChannel(W, c), c), c), c) EXCEPT
     !.client[c].magic_number = 0, !.client[c].pd_magic_number = 0,
     !.client[c].getFuncArg = NULL, !.client[c].subFuncArg = NULL,
     !.client[c].putFuncArg = NULL, !.client[c].channel_id = NULL,
     !.client[c].event_id = NULL]

(***************************************************************************)
(* ACAI::Client: the handlers of the buffered notifications.  The event    *)
(* handlers return the world and args.dbr as they leave it.                *)
(***************************************************************************)
\* epicsTime::getCurrent (): later than the stamp of any update
getCurrent == 2

\* the macros of updateHandler
ASSIGN_STATUS(W, c, args) ==
  [W EXCEPT !.client[c].data_element_count = args.count,
            !.client[c].severity = args.severity,
            !.client[c].timeStamp = getCurrent]

\* ASSIGN_STATUS_AND_TIME followed by ASSIGN_META_DATA
ASSIGN_STATUS_AND_TIME_meta(W, c, args) ==
  [W EXCEPT !.client[c].data_element_count = args.count,
            !.client[c].severity = args.severity,
            !.client[c].timeStamp = args.stamp,
            !.client[c].meta = args.meta]

ASSIGN_STATUS_AND_TIME(W, c, args) ==
  [W EXCEPT !.client[c].data_element_count = args.count,
            !.client[c].severity = args.severity,
            !.client[c].timeStamp = args.stamp]

ASSIGN_META_DATA(W, c, args) == [W EXCEPT !.client[c].meta = args.meta]

\* is_first_update = false, after callDataUpdate
first_update_kept(W, c) == W

first_update_done(W, c) == [W EXCEPT !.client[c].is_first_update = FALSE]

updateHandler(W, c, args) ==
  LET length == dbr_value_size(args.type) * args.count
      u == updateBuffer([W EXCEPT !.client[c].logical_data_size = length], c, args)
      first == W.client[c].is_first_update
      store == [u.W EXCEPT !.client[c].payload = [val |-> args.val, count |-> args.count],
                           !.client[c].data_field_type = "ClientFieldDOUBLE"]
      W1 == callDataUpdate(
              IF args.type = "DBR_CTRL_DOUBLE"
                THEN ASSIGN_META_DATA(ASSIGN_STATUS(store, c, args), c, args)
                ELSE ASSIGN_STATUS_AND_TIME(store, c, args),
              c, first)
  IN IF W.client[c].connectionStatus # "csConnected"
       THEN [W |-> reportError(W), dbr |-> args.dbr]
     ELSE IF ~ dbr_type_is_valid(args.type)
       THEN [W |-> reportError(W), dbr |-> args.dbr]
     ELSE IF length <= 0
       THEN [W |-> W, dbr |-> args.dbr]
     ELSE IF args.type \in {"DBR_CTRL_DOUBLE", "DBR_TIME_DOUBLE"}
       THEN [W |-> IF W1.thrown THEN W1 ELSE first_update_done(W1, c),
             dbr |-> u.dbr]
     ELSE [W |-> reportError([u.W EXCEPT !.client[c].data_field_type =
                                            "ClientFieldNO_ACCESS"]),
           dbr |-> u.dbr]

connectionHandler(W, c, args, ext) ==
  IF args.op = "CA_OP_CONN_UP"
    THEN LET h == W.client[c].channel_id
             Wg == uniqueFunctionArg(W)
             Wp == uniqueFunctionArg(Wg)
             W1 == [Wp EXCEPT
                      !.client[c].connectionStatus = "csConnected",
                      !.client[c].channel_element_count =
                         IF W.ca.chan[h].up THEN HostElementCount ELSE 0,
                      !.client[c].data_element_count = 0,
                      !.client[c].is_first_update = TRUE,
                      !.client[c].getFuncArg = Wg.unique_id,
                      !.client[c].putFuncArg = Wp.unique_id]
         IN callConnectionUpdate(
              readSubscribeChannel(W1, c, "Subscribe", ext).W, c)
  ELSE IF args.op = "CA_OP_CONN_DOWN"
    THEN LET W1 == [W EXCEPT !.client[c].pending_put_callback = FALSE,
                             !.client[c].connectionStatus = "csDisconnected"]
             W2 == [unsubscribeChannel(W1, c) EXCEPT !.client[c].getFuncArg = NULL,
                                                     !.client[c].putFuncArg = NULL]
         IN callConnectionUpdate(clearBuffer(W2, c), c)
  ELSE reportError(W)

eventHandler(W, c, args) ==
  LET d == W.client[c]
  IN IF args.usr = d.getFuncArg \/ args.usr = d.subFuncArg
       THEN IF args.status = "ECA_NORMAL" /\ args.dbr # NULL
              THEN updateHandler(W, c, args)
              ELSE [W |-> reportError(W), dbr |-> args.dbr]
     ELSE IF args.usr = d.putFuncArg
       THEN IF d.pending_put_callback
              THEN [W |-> callPutCallbackNotifcation(
                            [W EXCEPT !.client[c].pending_put_callback = FALSE],
                            c, args.status = "ECA_NORMAL"),
                    dbr |-> args.dbr]
              ELSE [W |-> reportError(W), dbr |-> args.dbr]
     ELSE [W |-> W, dbr |-> args.dbr]

\* Client::cast: the magic numbers of the object a pointer refers to
cast(W, item) ==
  IF item = NullClient THEN NullClient
  ELSE IF W.client[item].magic_number # MAGIC_NUMBER_C
          \/ W.client[item].pd_magic_number # MAGIC_NUMBER_P THEN NullClient
  ELSE item

\* the client a notification for channel_id belongs to, or NullClient;
\* user_data is what ca_puser returns for it
validateChannelId(W, channel_id, user_data) ==
  IF channel_id = NULL \/ user_data = NullClient THEN NullClient
  ELSE IF cast(W, user_data) = NullClient THEN NullClient
  ELSE IF W.client[user_data].channel_id = NULL THEN NullClient
  ELSE IF W.client[user_data].channel_id # channel_id THEN NullClient
  ELSE user_data

\* the two conditions that validateChannelId reports
validateChannelId_reports(channel_id, user_data) ==
  channel_id = NULL \/ user_data = NullClient

\* application_connection_handler, application_event_handler and
\* application_printf_handler for a queued item
application_handler(W, pci, ext) ==
  LET pClient == validateChannelId(W, pci.chid, ext.puser)
      W1 == IF validateChannelId_reports(pci.chid, ext.puser)
              THEN reportError(W) ELSE W
  IN IF pci.kind = "CONNECTION"
       THEN [W |-> IF pClient # NullClient THEN connectionHandler(W1, pClient, pci, ext)
                   ELSE W1,
             dbr |-> pci.dbr]
     ELSE IF pci.kind = "EVENT"
       THEN IF pClient # NullClient THEN eventHandler(W1, pClient, pci)
            ELSE [W |-> W1, dbr |-> pci.dbr]
     ELSE [W |-> W, dbr |-> pci.dbr]

\* what the library calls made while an item is handled can answer
Ext(W, pci) ==
  [puser : ca_puser(W, pci.chid),
   get : IF pci.kind = "CONNECTION" THEN BOOLEAN ELSE {TRUE},
   sub : IF pci.kind = "CONNECTION" THEN BOOLEAN ELSE {TRUE}]

\* the world in which the application's callbacks follow script
WorldOf(script) ==
  [client |-> client, ca |-> ca, heap |-> heap, unique_id |-> unique_id,
   fired |-> <<>>, reported |-> reported, fault |-> fault, freed_in_use |-> freed_in_use,
   cleared |-> {}, registeredUsers |-> registeredUsers,
   registeredClients |-> registeredClients, userLive |-> userLive, handler |-> handler,
   delivered |-> <<>>, propagated |-> propagated, iter_fault |-> FALSE,
   client_set |-> client_set, deletes |-> deletes,
   thrown |-> FALSE, script |-> script]

\* the callbacks do nothing but return
World == WorldOf(NoScript)

Commit(W) ==
  /\ client' = W.client
  /\ ca' = W.ca
  /\ heap' = W.heap
  /\ unique_id' = W.unique_id
  /\ fired' = W.fired
  /\ reported' = W.reported
  /\ fault' = W.fault
  /\ freed_in_use' = W.freed_in_use
  /\ registeredUsers' = W.registeredUsers
  /\ registeredClients' = W.registeredClients
  /\ userLive' = W.userLive
  /\ handler' = W.handler
  /\ delivered' = W.delivered
  /\ propagated' = W.propagated
  /\ iter_fault' = W.iter_fault
  /\ client_set' = W.client_set
  /\ deletes' = W.deletes

\* a step of the queue alone calls no hook and leaves the clients alone
NoCall == [op |-> "none", c |-> NullClient, issued |-> FALSE, result |-> FALSE,
           n |-> 0, max |-> 0]

\* process_buffered_callbacks (max) returns n
returns(n, max) == [NoCall EXCEPT !.op = "process_buffered_callbacks", !.n = n,
                                  !.max = max]

Returning(lastCall) ==
  /\ fired' = <<>>
  /\ delivered' = <<>>
  /\ iter_fault' = FALSE
  /\ last' = lastCall
  /\ UNCHANGED calls

Silent == Returning(NoCall)

Quiet == Silent /\ UNCHANGED cvars

(***************************************************************************)
(* buffered_callbacks.c: producer side                                     *)
(***************************************************************************)
\* no thread holds the mutex
NoThread == "none"

\* the application thread, which calls process_buffered_callbacks
Consumer == "app"

\* no increment of allocate_fail_count under way
NoReg == 0 - 1

initialise_buffered_callbacks ==
  /\ linked_list_mutex = NULL
  /\ linked_list_mutex' = 1
  /\ linked_list' = <<>>
  /\ allocate_fail_count' = 0
  /\ UNCHANGED <<discard_count, prod, cons, loads, dispatched, coalesced, heap,
                 mutex_owner, fail_reg>>
  /\ Quiet

\* allocate_element and the copying of the arguments; malloc may fail.
\* What the library does besides calling the handler is the caller's part.
\* When malloc fails the handler reads allocate_fail_count for its ++, which
\* no mutex protects; allocate_fail_store writes the incremented value back.
handler_entry(p, item, ok) ==
  /\ linked_list_mutex # NULL
  /\ prod[p] = NoItem
  /\ fail_reg[p] = NoReg
  /\ mutex_owner # p
  /\ IF ok
       THEN /\ prod' = [prod EXCEPT ![p] = item]
            /\ heap' = IF item.dbr = NULL THEN heap ELSE heap \cup {dbr_block(item)}
            /\ UNCHANGED fail_reg
       ELSE /\ fail_reg' = [fail_reg EXCEPT ![p] = allocate_fail_count]
            /\ UNCHANGED <<prod, heap>>
  /\ UNCHANGED <<mutex_owner, allocate_fail_count, linked_list_mutex, linked_list,
                 discard_count, cons, loads, dispatched, coalesced>>
  /\ Silent

\* the store of allocate_fail_count++, and the return of the handler
allocate_fail_store(p) ==
  /\ fail_reg[p] # NoReg
  /\ allocate_fail_count' = fail_reg[p] + 1
  /\ fail_reg' = [fail_reg EXCEPT ![p] = NoReg]
  /\ UNCHANGED <<mutex_owner, linked_list_mutex, linked_list, discard_count, prod, cons,
                 loads, dispatched, coalesced, heap>>
  /\ Quiet

buffered_connection_handler(p, args, ok) ==
  handler_entry(p, connection_item(args), ok)

buffered_event_handler(p, args, ok) ==
  handler_entry(p, event_item(args, IF args.dbr = NULL THEN NULL ELSE malloc(heap)), ok)

buffered_printf_handler(p, text, ok) ==
  handler_entry(p, printf_item(text), ok)

\* load_element: under the mutex, the duplicate search and the append
load_element(p) ==
  /\ prod[p] # NoItem
  /\ LET pci == [prod[p] EXCEPT !.seq = loads + 1,
                                  !.above = ellCount(linked_list) > multiple_check_limit]
         i == IF search_wanted(linked_list, pci)
                THEN first_duplicate(linked_list, pci) ELSE 0
     IN IF i # 0
          THEN /\ linked_list' = ellAdd(ellDelete(linked_list, i), pci)
               /\ heap' = IF linked_list[i].dbr = NULL THEN heap
                          ELSE free(heap, linked_list[i].dbr)
               /\ discard_count' = discard_count + 1
               /\ coalesced' = coalesced \cup {linked_list[i].seq}
          ELSE /\ linked_list' = ellAdd(linked_list, pci)
               /\ UNCHANGED <<heap, discard_count, coalesced>>
  /\ prod' = [prod EXCEPT ![p] = NoItem]
  /\ loads' = loads + 1
  /\ UNCHANGED <<mutex_owner, fail_reg, linked_list_mutex, allocate_fail_count, cons, dispatched>>
  /\ Quiet

(***************************************************************************)
(* buffered_callbacks.c: consumer side                                     *)
(***************************************************************************)
\* some and d0 record, for the call in progress, whether the list held an
\* item and how many items had been dispatched when the call began
Idle == [pc |-> "idle", n |-> 0, max |-> 0, pci |-> NoItem, some |-> FALSE, d0 |-> 0]

\* without the increment
n_unchanged(n) == n

\* n++
n_incremented(n) == n + 1

\* with the loop's test before unload_element
process_buffered_callbacks_test_first(max) ==
  /\ cons.pc = "idle"
  /\ IF linked_list_mutex = NULL
       THEN /\ cons' = Idle
            /\ UNCHANGED allocate_fail_count
            /\ Returning(returns(0 - 1, max))
       ELSE /\ cons' = IF 0 >= max THEN Idle
                       ELSE [Idle EXCEPT !.pc = "unload", !.max = max,
                                         !.some = linked_list # <<>>,
                                         !.d0 = Len(dispatched)]
            /\ allocate_fail_count' = 0
            /\ Returning(IF 0 >= max THEN returns(0, max) ELSE NoCall)
  /\ UNCHANGED <<mutex_owner, fail_reg, linked_list_mutex, linked_list, discard_count, prod, loads,
                 dispatched, coalesced, heap>>
  /\ UNCHANGED cvars

\* entry of process_buffered_callbacks
process_buffered_callbacks(max) ==
  /\ cons.pc = "idle"
  /\ IF linked_list_mutex = NULL
       THEN /\ cons' = Idle
            /\ UNCHANGED allocate_fail_count
            /\ Returning(returns(0 - 1, max))
       ELSE /\ cons' = [Idle EXCEPT !.pc = "unload", !.max = max,
                                    !.some = linked_list # <<>>,
                                    !.d0 = Len(dispatched)]
            /\ allocate_fail_count' = 0
            /\ Silent
  /\ UNCHANGED <<mutex_owner, fail_reg, linked_list_mutex, linked_list, discard_count, prod, loads,
                 dispatched, coalesced, heap>>
  /\ UNCHANGED cvars

\* unload_element, under the mutex, and the test for an empty list
unload_element ==
  /\ cons.pc = "unload"
  /\ LET g == ellGet(linked_list)
     IN /\ linked_list' = g.list
        /\ cons' = IF g.node = NoItem
                     THEN Idle
                     ELSE [cons EXCEPT !.pc = "dispatch", !.pci = g.node]
  /\ Returning(IF ellGet(linked_list).node = NoItem
                 THEN returns(cons.n, cons.max) ELSE NoCall)
  /\ UNCHANGED <<mutex_owner, fail_reg, linked_list_mutex,
                 allocate_fail_count, discard_count, prod, loads,
                 dispatched, coalesced, heap>>
  /\ UNCHANGED cvars

\* without the free
free_element_none(W, dbr) == W

\* free_element: the item's own dbr copy, unless the handler took it over
free_element(W, dbr) ==
  IF dbr = NULL THEN W ELSE [W EXCEPT !.heap = free(W.heap, dbr)]

\* the application handler for the item, free_element, and the test of n,
\* with callbacks that follow script; an exception that leaves the handler
\* leaves process_buffered_callbacks too
dispatch(script) ==
  /\ cons.pc = "dispatch"
  /\ \E ext \in Ext(WorldOf(script), cons.pci) :
       LET r == application_handler(WorldOf(script), cons.pci, ext)
       IN IF r.W.thrown
            THEN Commit(r.W) /\ cons' = Idle /\ last' = NoCall
            ELSE /\ Commit(free_element(r.W, r.dbr))
                 /\ IF n_incremented(cons.n) >= cons.max
                      THEN /\ cons' = Idle
                           /\ last' = returns(n_incremented(cons.n), cons.max)
                      ELSE /\ cons' = [cons EXCEPT !.pc = "unload",
                                                   !.n = n_incremented(cons.n),
                                                   !.pci = NoItem]
                           /\ last' = NoCall
  /\ dispatched' = Append(dispatched, cons.pci.seq)
  /\ UNCHANGED calls
  /\ UNCHANGED <<mutex_owner, fail_reg, linked_list_mutex,
                 linked_list, allocate_fail_count, discard_count,
                 prod, loads, coalesced>>

dispatch_element == dispatch(NoScript)

\* entry of clear_all_buffered_callbacks
clear_all_buffered_callbacks ==
  /\ cons.pc = "idle"
  /\ cons' = IF linked_list_mutex = NULL THEN Idle ELSE [Idle EXCEPT !.pc = "clear"]
  /\ UNCHANGED <<mutex_owner, fail_reg, linked_list_mutex, linked_list,
                 allocate_fail_count, discard_count, prod, loads, dispatched, coalesced,
                 heap>>
  /\ Returning([NoCall EXCEPT !.op = "clear_all_buffered_callbacks"])
  /\ UNCHANGED cvars

\* without free_element
clear_element_no_free ==
  /\ cons.pc = "clear"
  /\ LET g == ellGet(linked_list)
     IN /\ linked_list' = g.list
        /\ heap' = heap
        /\ cons' = IF g.node = NoItem THEN Idle ELSE cons
  /\ UNCHANGED <<mutex_owner, fail_reg, linked_list_mutex, allocate_fail_count,
                 discard_count, prod, loads, dispatched, coalesced>>
  /\ Quiet

\* one turn of its loop: unload_element and free_element
clear_element ==
  /\ cons.pc = "clear"
  /\ LET g == ellGet(linked_list)
     IN /\ linked_list' = g.list
        /\ heap' = IF g.node = NoItem \/ g.node.dbr = NULL THEN heap
                   ELSE free(heap, g.node.dbr)
        /\ cons' = IF g.node = NoItem THEN Idle ELSE cons
  /\ UNCHANGED <<mutex_owner, fail_reg, linked_list_mutex,
                 allocate_fail_count, discard_count, prod, loads,
                 dispatched, coalesced>>
  /\ Quiet

(***************************************************************************)
(* buffered_callbacks.c: the mutex.  In SpecLock the lock and the unlock   *)
(* of load_element and unload_element are steps of their own, and the      *)
(* actions load_element and ellGet are what happens between them.          *)
(***************************************************************************)
\* epicsMutexLock returns when no other thread holds the mutex
epicsMutexLock(t) ==
  /\ linked_list_mutex # NULL
  /\ mutex_owner = NoThread
  /\ mutex_owner' = t
  /\ UNCHANGED <<fail_reg, linked_list_mutex, linked_list, allocate_fail_count,
                 discard_count, prod, cons, loads, dispatched, coalesced, heap>>
  /\ Quiet

epicsMutexUnlock(t) ==
  /\ mutex_owner = t
  /\ mutex_owner' = NoThread
  /\ UNCHANGED <<fail_reg, linked_list_mutex, linked_list, allocate_fail_count,
                 discard_count, prod, loads, dispatched, coalesced, heap>>
  /\ UNCHANGED cvars
  /\ fired' = <<>>
  /\ delivered' = <<>>
  /\ iter_fault' = FALSE
  /\ UNCHANGED calls

\* load_element: the lock, the search and the append, the unlock
load_element_lock(p) == prod[p] # NoItem /\ epicsMutexLock(p)

load_element_locked(p) == mutex_owner = p /\ load_element(p)

load_element_unlock(p) ==
  /\ prod[p] = NoItem
  /\ epicsMutexUnlock(p)
  /\ UNCHANGED cons
  /\ last' = NoCall

\* unload_element: the lock, ellGet, the unlock and what follows the return
unload_element_lock == cons.pc = "unload" /\ epicsMutexLock(Consumer)

unload_element_get ==
  /\ cons.pc = "unload"
  /\ mutex_owner = Consumer
  /\ LET g == ellGet(linked_list)
     IN /\ linked_list' = g.list
        /\ cons' = [cons EXCEPT !.pc = "unlock", !.pci = g.node]
  /\ UNCHANGED <<mutex_owner, fail_reg, linked_list_mutex, allocate_fail_count,
                 discard_count, prod, loads, dispatched, coalesced, heap>>
  /\ Quiet

\* after the unlock: the application handler is called next, or the loop ends
unload_element_return ==
  /\ cons' = IF cons.pci = NoItem THEN Idle ELSE [cons EXCEPT !.pc = "dispatch"]
  /\ last' = IF cons.pci = NoItem THEN returns(cons.n, cons.max) ELSE NoCall

\* without the unlock
unload_element_unlock_none ==
  /\ cons.pc = "unlock"
  /\ unload_element_return
  /\ UNCHANGED <<mutex_owner, fail_reg, linked_list_mutex, linked_list,
                 allocate_fail_count, discard_count, prod, loads, dispatched, coalesced,
                 heap>>
  /\ UNCHANGED cvars
  /\ fired' = <<>>
  /\ delivered' = <<>>
  /\ iter_fault' = FALSE
  /\ UNCHANGED calls

unload_element_unlock ==
  /\ cons.pc = "unlock"
  /\ epicsMutexUnlock(Consumer)
  /\ unload_element_return

\* number_of_buffered_callbacks, called by the application thread between
\* polls or from one of its handlers
number_of_buffered_callbacks ==
  /\ cons.pc \in {"idle", "dispatch"}
  /\ IF linked_list_mutex = NULL
       THEN last' = [NoCall EXCEPT !.op = "number_of_buffered_callbacks", !.n = 0 - 1]
       ELSE /\ mutex_owner = NoThread
            /\ last' = [NoCall EXCEPT !.op = "number_of_buffered_callbacks",
                                      !.n = ellCount(linked_list)]
  /\ UNCHANGED <<qvars, cvars, calls>>
  /\ fired' = <<>>
  /\ delivered' = <<>>
  /\ iter_fault' = FALSE

(***************************************************************************)
(* SpecQ: the queue with producers that pass arbitrary arguments           *)
(***************************************************************************)
QConnArgs == [chid : {1}, op : {"CA_OP_CONN_UP"}, owner : {NullClient}]

\* a base key and one key differing from it in each compared field
QEventKeys == {<<1, "DBR_TIME_DOUBLE", 1>>, <<2, "DBR_TIME_DOUBLE", 1>>,
               <<1, "DBR_CTRL_DOUBLE", 1>>, <<1, "DBR_TIME_DOUBLE", 2>>}

QEventArgs == {[chid |-> k[1], type |-> k[2], usr |-> k[3], status |-> "ECA_NORMAL",
                count |-> 1, val |-> 1, dbr |-> 1, meta |-> 0, severity |-> 0,
                stamp |-> 0, owner |-> NullClient] : k \in QEventKeys}

InitQ ==
  /\ linked_list_mutex = NULL
  /\ linked_list = <<>>
  /\ allocate_fail_count = 0
  /\ discard_count = 0
  /\ prod = [p \in Producers |-> NoItem]
  /\ cons = Idle
  /\ loads = 0
  /\ dispatched = <<>>
  /\ coalesced = {}
  /\ heap = {}
  /\ mutex_owner = NoThread
  /\ fail_reg = [p \in Producers |-> NoReg]

\* the clients as constructed, no channel created yet
Init ==
  /\ InitQ
  /\ client = [c \in Clients |-> NewClient]
  /\ ca = [chan |-> [h \in Chids |-> NoChannel], gets |-> {}, subs |-> {}, puts |-> <<>>]
  /\ unique_id = 0
  /\ fired = <<>>
  /\ reported = [c \in Clients |-> <<>>]
  /\ last = NoCall
  /\ fault = FALSE
  /\ freed_in_use = FALSE
  /\ calls = 0
  /\ registeredUsers = [c \in Clients |-> {}]
  /\ registeredClients = [u \in Users |-> {}]
  /\ userLive = [u \in Users |-> TRUE]
  /\ handler = [c \in Clients |-> {}]
  /\ delivered = <<>>
  /\ propagated = FALSE
  /\ iter_fault = FALSE
  /\ client_set = [s \in SetIds |-> NewSet(s = "s2")]
  /\ deletes = [c \in Clients |-> 0]

\* the handler invocations so far, as far as the state tells
InFlightQ ==
  loads + Cardinality({q \in Producers : prod[q] # NoItem \/ fail_reg[q] # NoReg})
    + allocate_fail_count

ProducerQ ==
  \E p \in Producers, ok \in BOOLEAN :
    /\ InFlightQ < MaxItemsQ
    /\ \/ \E args \in QConnArgs : buffered_connection_handler(p, args, ok)
       \/ \E args \in QEventArgs : buffered_event_handler(p, args, ok)
       \/ buffered_printf_handler(p, "text", ok)
    /\ UNCHANGED cvars

NextQ ==
  \/ initialise_buffered_callbacks
  \/ ProducerQ
  \/ \E p \in Producers : allocate_fail_store(p)
  \/ \E p \in Producers : load_element(p)
  \/ \E max \in {0 - 1, MaxProcess} : process_buffered_callbacks(max)
  \/ unload_element
  \/ dispatch_element
  \/ clear_all_buffered_callbacks
  \/ clear_element

SpecQ == Init /\ [][NextQ]_vars

\* SpecLive: one library thread that delivers updates and texts, and an
\* application thread that keeps calling process_buffered_callbacks, with a
\* negative max, and may call clear_all_buffered_callbacks.  The
\* application's calls and the steps of its thread are taken when they stay
\* possible; nothing is assumed about the library thread.
MaxItemsLive == 4

\* updates of one channel for two subscriptions
LiveEventArgs == {a \in QEventArgs : a.chid = 1 /\ a.type = "DBR_TIME_DOUBLE"}

ProducerLive(p) ==
  /\ InFlightQ < MaxItemsLive
  /\ \/ \E args \in LiveEventArgs : buffered_event_handler(p, args, TRUE)
     \/ buffered_printf_handler(p, "text", TRUE)
  /\ UNCHANGED cvars

\* the call with a negative max
Poll == process_buffered_callbacks(0 - 1)

NextLive ==
  \/ initialise_buffered_callbacks
  \/ ProducerLive("p1")
  \/ load_element("p1")
  \/ Poll
  \/ unload_element
  \/ dispatch_element
  \/ clear_all_buffered_callbacks
  \/ clear_element

SpecLive ==
  /\ Init
  /\ [][NextLive]_vars
  /\ WF_vars(Poll)
  /\ WF_vars(unload_element)
  /\ WF_vars(dispatch_element)
  /\ WF_vars(clear_element)

\* number_of_discarded_updates takes no mutex: its read of discard_count and
\* its store of 0 are steps of their own, and load_element of a library
\* thread may run between them
number_of_discarded_updates_read ==
  /\ cons.pc = "idle"
  /\ calls < MaxCallsDiscard
  /\ calls' = calls + 1
  /\ cons' = [Idle EXCEPT !.pc = "discarded", !.n = discard_count]
  /\ fired' = <<>>
  /\ delivered' = <<>>
  /\ iter_fault' = FALSE
  /\ last' = NoCall
  /\ UNCHANGED <<mutex_owner, fail_reg, linked_list_mutex, linked_list, allocate_fail_count,
                 discard_count, prod, loads, dispatched, coalesced, heap>>
  /\ UNCHANGED cvars

number_of_discarded_updates_reset ==
  /\ cons.pc = "discarded"
  /\ discard_count' = 0
  /\ cons' = Idle
  /\ Returning([NoCall EXCEPT !.op = "number_of_discarded_updates", !.n = cons.n])
  /\ UNCHANGED <<mutex_owner, fail_reg, linked_list_mutex, linked_list, allocate_fail_count,
                 prod, loads, dispatched, coalesced, heap>>
  /\ UNCHANGED cvars

\* SpecDiscard: the producers of SpecQ and an application thread that reads
\* the number of discarded updates
NextDiscard ==
  \/ initialise_buffered_callbacks
  \/ ProducerQ
  \/ \E p \in Producers : allocate_fail_store(p)
  \/ \E p \in Producers : load_element(p)
  \/ number_of_discarded_updates_read
  \/ number_of_discarded_updates_reset

SpecDiscard == Init /\ [][NextDiscard]_vars

\* SpecLock: the same producers and consumer, with the steps of the mutex
NextLock ==
  \/ initialise_buffered_callbacks
  \/ InFlightQ < MaxItemsLock /\ ProducerQ
  \/ \E p \in Producers : allocate_fail_store(p)
  \/ \E p \in Producers : load_element_lock(p)
  \/ \E p \in Producers : load_element_locked(p)
  \/ \E p \in Producers : load_element_unlock(p)
  \/ process_buffered_callbacks(MaxProcess)
  \/ unload_element_lock
  \/ unload_element_get
  \/ unload_element_unlock
  \/ dispatch_element
  \/ number_of_buffered_callbacks

SpecLock == Init /\ [][NextLock]_vars

(***************************************************************************)
(* Spec: the clients, the library and the queue.                           *)
(* The library's threads call the buffered handlers.                       *)
(***************************************************************************)
InFlight ==
  loads + Cardinality({q \in Producers : prod[q] # NoItem \/ fail_reg[q] # NoReg})
    + allocate_fail_count

\* a channel connects or disconnects: buffered_connection_handler
ca_connection_event_within(most, p, h, ok) ==
  /\ InFlight < most
  /\ ca.chan[h].live
  /\ buffered_connection_handler(p,
        [chid |-> h, owner |-> ca.chan[h].puser,
         op |-> IF ca.chan[h].up THEN "CA_OP_CONN_DOWN" ELSE "CA_OP_CONN_UP"], ok)
  /\ ca' = [ca EXCEPT !.chan[h].up = ~ @]
  /\ UNCHANGED <<client, unique_id, reported, fault, freed_in_use, ovars>>

ca_connection_event(p, h, ok) == ca_connection_event_within(MaxItems, p, h, ok)

\* the reply to a ca_array_get_callback: buffered_event_handler, DBR_CTRL type,
\* with the metadata of the host's record
ca_get_reply_within(most, p, g, meta, ok) ==
  /\ InFlight < most
  /\ g \in ca.gets
  /\ buffered_event_handler(p,
        [chid |-> g.chid, owner |-> ca.chan[g.chid].puser, type |-> "DBR_CTRL_DOUBLE",
         usr |-> g.usr, status |-> ca_status(World, g.chid, TRUE),
         count |-> g.count, val |-> InFlight + 1,
         dbr |-> IF ca.chan[g.chid].up THEN 1 ELSE NULL,
         meta |-> meta, severity |-> 1, stamp |-> 0], ok)
  /\ ca' = [ca EXCEPT !.gets = @ \ {g}]
  /\ UNCHANGED <<client, unique_id, reported, fault, freed_in_use, ovars>>

ca_get_reply_meta(p, g, meta, ok) == ca_get_reply_within(MaxItems, p, g, meta, ok)

ca_get_reply(p, g, ok) == ca_get_reply_meta(p, g, 1, ok)

\* an event of a subscription: buffered_event_handler
ca_subscription_event_within(most, p, s, type, count, ok) ==
  /\ InFlight < most
  /\ s \in ca.subs
  /\ ca.chan[s.chid].up
  /\ buffered_event_handler(p,
        [chid |-> s.chid, owner |-> ca.chan[s.chid].puser, type |-> type,
         usr |-> s.usr, status |-> "ECA_NORMAL", count |-> count, val |-> InFlight + 1,
         dbr |-> 1, meta |-> 0, severity |-> 1, stamp |-> 1], ok)
  /\ UNCHANGED cvars

ca_subscription_event(p, s, type, count, ok) ==
  ca_subscription_event_within(MaxItems, p, s, type, count, ok)

\* an update of a subscription: DBR_TIME type, the count subscribed for
ca_subscription_update(p, s, ok) ==
  ca_subscription_event(p, s, "DBR_TIME_DOUBLE", s.count, ok)

\* the acknowledgement of a ca_array_put_callback: buffered_event_handler
ca_put_reply_within(most, p, status, ok) ==
  /\ InFlight < most
  /\ ca.puts # <<>>
  /\ buffered_event_handler(p,
        [chid |-> Head(ca.puts).chid, owner |-> ca.chan[Head(ca.puts).chid].puser,
         type |-> "DBR_TIME_DOUBLE", usr |-> Head(ca.puts).usr, status |-> status,
         count |-> 1, val |-> 0, dbr |-> NULL, meta |-> 0, severity |-> 0,
         stamp |-> 0], ok)
  /\ ca' = [ca EXCEPT !.puts = Tail(@)]
  /\ UNCHANGED <<client, unique_id, reported, fault, freed_in_use, ovars>>

ca_put_reply(p, status, ok) == ca_put_reply_within(MaxItems, p, status, ok)

(***************************************************************************)
(* The application thread calls the Client's functions between two calls   *)
(* of process_buffered_callbacks.  Notifications produced for a channel    *)
(* that the call clears are marked stale.                                  *)
(***************************************************************************)
mark_stale(item, cleared) ==
  IF item # NoItem /\ item.chid \in cleared THEN [item EXCEPT !.stale = TRUE] ELSE item

call(c, W, lastCall) ==
  /\ linked_list_mutex # NULL
  /\ cons.pc = "idle"
  /\ client[c].magic_number = MAGIC_NUMBER_C
  /\ calls < MaxCalls
  /\ calls' = calls + 1
  /\ Commit(W)
  /\ last' = lastCall
  /\ linked_list' = [i \in DOMAIN linked_list |-> mark_stale(linked_list[i], W.cleared)]
  /\ prod' = [p \in Producers |-> mark_stale(prod[p], W.cleared)]
  /\ UNCHANGED <<mutex_owner, fail_reg, linked_list_mutex,
                 allocate_fail_count, discard_count, cons, loads,
                 dispatched, coalesced>>

\* the chids ca_create_channel can hand out: any that is not live, or none
free_chids(W) == {h \in Chids : ~ W.ca.chan[h].live} \cup {NULL}

Client_openChannel(c) ==
  \E h \in free_chids(World) : call(c, openChannel(World, c, h).W, NoCall)

\* openChannel, with the value it returns on record
Client_openChannel_result(c) ==
  \E h \in free_chids(World) :
    LET r == openChannel(World, c, h)
    IN call(c, r.W, [NoCall EXCEPT !.op = "openChannel", !.c = c, !.result = r.result])

\* setPvName (pvName, doImmediateReopen)
setPvName(W, c, pvName, doImmediateReopen, h) ==
  LET W1 == [W EXCEPT !.client[c].pv_name = pvName]
  IN IF doImmediateReopen THEN reopenChannel(W1, c, h).W ELSE W1

Client_setPvName(c, pvName, doImmediateReopen) ==
  \E h \in free_chids(closeChannel(World, c)) :
    call(c, setPvName(World, c, pvName, doImmediateReopen, h), NoCall)

Client_closeChannel(c) ==
  call(c, closeChannel(World, c),
       [NoCall EXCEPT !.op = "closeChannel", !.c = c])

Client_reopenChannel(c) ==
  \E h \in free_chids(closeChannel(World, c)) :
    call(c, reopenChannel(World, c, h).W, NoCall)

Client_reReadChannel(c) ==
  \E ok \in BOOLEAN :
    call(c, reReadChannel(World, c, [get |-> ok, sub |-> TRUE]).W, NoCall)

Client_setRequestCount(c, number) ==
  call(c, [World EXCEPT !.client[c].request_element_count = number,
                        !.client[c].request_element_count_defined = TRUE], NoCall)

Client_clearRequestCount(c) ==
  call(c, [World EXCEPT !.client[c].request_element_count = 0,
                        !.client[c].request_element_count_defined = FALSE], NoCall)

Client_setUsePutCallback(c, usePutCallbackIn) ==
  call(c, [World EXCEPT !.client[c].use_put_callback = usePutCallbackIn], NoCall)

Client_putData(c) ==
  /\ Len(ca.puts) < MaxPuts
  /\ \E ok \in BOOLEAN :
       LET r == putData(World, c, ok)
       IN call(c, r.W, [NoCall EXCEPT !.op = "putData", !.c = c, !.issued = r.issued,
                                       !.result = r.result])

Client_clearPendingPutCallback(c) ==
  call(c, clearPendingPutCallback(World, c),
       [NoCall EXCEPT !.op = "clearPendingPutCallback", !.c = c])

Client_destroy(c) == call(c, destroy(World, c), NoCall)

\* setUpdateHandler with a function that is not NULL
Client_setUpdateHandler(c) ==
  call(c, [World EXCEPT !.handler[c] = @ \cup {"data"}], NoCall)

\* a call of a function of the live user u by the application thread
user_call(u, W) ==
  /\ userLive[u]
  /\ cons.pc = "idle"
  /\ calls < MaxCalls
  /\ calls' = calls + 1
  /\ Commit(W)
  /\ last' = NoCall
  /\ UNCHANGED <<mutex_owner, fail_reg, linked_list_mutex,
                 linked_list, allocate_fail_count, discard_count, prod,
                 cons, loads, dispatched, coalesced>>

LiveClients == {c \in Clients : client[c].magic_number = MAGIC_NUMBER_C}

\* Client_Set::iterateChannels with registerOneClient / deregisterOneClient:
\* a copy of the set is iterated, in the order of the addresses
RECURSIVE registerAllClients(_, _, _)
registerAllClients(W, u, copy) ==
  IF copy = {} THEN W
  ELSE LET c == CHOOSE x \in copy : TRUE
       IN registerAllClients(registerClient(W, u, c), u, copy \ {c})

RECURSIVE deregisterAllClients(_, _, _)
deregisterAllClients(W, u, copy) ==
  IF copy = {} THEN W
  ELSE LET c == CHOOSE x \in copy : TRUE
       IN deregisterAllClients(deregisterClient(W, u, c), u, copy \ {c})

\* ~Abstract_Client_User: deregisterAllClients (registeredClients), clear, delete
destroy_user(W, u) ==
  [deregisterAllClients(W, u, W.registeredClients[u]) EXCEPT
     !.registeredClients[u] = {}, !.userLive[u] = FALSE]

User_registerClient(u, c) ==
  c \in LiveClients /\ user_call(u, registerClient(World, u, c))

User_deregisterClient(u, c) ==
  c \in LiveClients /\ user_call(u, deregisterClient(World, u, c))

User_registerAllClients(u, clientSet) ==
  clientSet \subseteq LiveClients /\ user_call(u, registerAllClients(World, u, clientSet))

User_deregisterAllClients(u, clientSet) ==
  clientSet \subseteq LiveClients /\ user_call(u, deregisterAllClients(World, u, clientSet))

User_destroy(u) == user_call(u, destroy_user(World, u))

(***************************************************************************)
(* ACAI::Client_Set (acai_client_set.cpp).  A container k is one of the    *)
(* application's sets or the registeredClients of a user, which is a       *)
(* Client_Set constructed without deepDestruction.                         *)
(***************************************************************************)
\* calls of Client_Set and user functions in SpecSet
MaxCallsSet == 4

OfSet(s) == [kind |-> "set", id |-> s]

OfUser(u) == [kind |-> "user", id |-> u]

\* this->clientList
clientList(W, k) ==
  IF k.kind = "set" THEN W.client_set[k.id].clientList ELSE W.registeredClients[k.id]

set_clientList(W, k, S) ==
  IF k.kind = "set" THEN [W EXCEPT !.client_set[k.id].clientList = S]
  ELSE [W EXCEPT !.registeredClients[k.id] = S]

\* std::set <Client*> keeps the clients in the order of their addresses
address(c) == IF c = "c1" THEN 1 ELSE 2

\* begin () and the increment of a valid iterator; NullClient stands for end ()
begin_client(S) ==
  IF S = {} THEN NullClient ELSE CHOOSE x \in S : \A y \in S : address(x) <= address(y)

increment_client(S, it) == begin_client({x \in S : address(x) > address(it)})

Client_Set_insert(W, k, item) ==
  IF item = NullClient THEN W ELSE set_clientList(W, k, clientList(W, k) \cup {item})

Client_Set_remove(W, k, item) ==
  IF item = NullClient THEN W ELSE set_clientList(W, k, clientList(W, k) \ {item})

\* a NULL other
NullSet == "NULL"

RECURSIVE insert_each(_, _, _, _)
insert_each(W, k, copy, it) ==
  IF it = NullClient THEN W
  ELSE insert_each(Client_Set_insert(W, k, it), k, copy, increment_client(copy, it))

RECURSIVE remove_each(_, _, _, _)
remove_each(W, k, copy, it) ==
  IF it = NullClient THEN W
  ELSE remove_each(Client_Set_remove(W, k, it), k, copy, increment_client(copy, it))

\* both iterate a copy of other->clientList
insertAllClients(W, k, other) ==
  IF other = NullSet THEN W
  ELSE LET copy == W.client_set[other].clientList
       IN insert_each(W, k, copy, begin_client(copy))

removeAllClients(W, k, other) ==
  IF other = NullSet THEN W
  ELSE LET copy == W.client_set[other].clientList
       IN remove_each(W, k, copy, begin_client(copy))

\* delete client: the destructor runs; deleting an object that has been
\* deleted already is a fault
delete_client(W, c) ==
  LET W1 == [W EXCEPT !.deletes[c] = @ + 1]
  IN IF W.client[c].magic_number = MAGIC_NUMBER_C THEN destroy(W1, c)
     ELSE [W1 EXCEPT !.fault = TRUE]

\* ACAI_ITERATE over this->clientList itself with delete client in its body.
\* When the destructor has erased the element the iterator points to, the
\* increment of the iterator is undefined: it arrives at the element wild, if
\* that is in the set, or at end ().
RECURSIVE deepClear_iterate(_, _, _, _)
deepClear_iterate(W, k, it, wild) ==
  IF it = NullClient THEN W
  ELSE LET W1 == delete_client(W, it)
           valid == it \in clientList(W1, k)
           next == IF wild \in clientList(W1, k) THEN wild ELSE NullClient
       IN IF valid
            THEN deepClear_iterate(W1, k, increment_client(clientList(W1, k), it), wild)
          ELSE deepClear_iterate([W1 EXCEPT !.iter_fault = TRUE], k, next, NullClient)

deepClear(W, k, wild) ==
  set_clientList(deepClear_iterate(W, k, begin_client(clientList(W, k)), wild), k, {})

\* with the members deleted
Client_Set_clear_deleting(W, k) == deepClear(W, k, NullClient)

Client_Set_clear(W, k) == set_clientList(W, k, {})

\* ~Client_Set
destroy_set(W, s) ==
  [(IF W.client_set[s].deepDestruction THEN deepClear(W, OfSet(s), NullClient)
    ELSE Client_Set_clear(W, OfSet(s))) EXCEPT !.client_set[s].live = FALSE]

\* what an IteratorFunction does with the set it is called from
IterReturn == [act |-> "return", item |-> NullClient]

IterActs == {IterReturn} \cup [act : {"insert", "remove"}, item : Clients]

\* func (client, context): the call is logged, then func does what f says
IteratorFunction(W, k, c, f) ==
  LET W1 == [W EXCEPT !.delivered =
                        Append(@, [to |-> "func", user |-> End, kind |-> f[c].act,
                                   c |-> c, arg |-> FALSE])]
  IN IF f[c].act = "insert" THEN Client_Set_insert(W1, k, f[c].item)
     ELSE IF f[c].act = "remove" THEN Client_Set_remove(W1, k, f[c].item)
     ELSE W1

\* with ACAI_ITERATE over this->clientList itself
RECURSIVE iterate_list(_, _, _, _)
iterate_list(W, k, f, it) ==
  IF it = NullClient THEN W
  ELSE LET W1 == IteratorFunction(W, k, it, f)
       IN IF it \in clientList(W1, k)
            THEN iterate_list(W1, k, f, increment_client(clientList(W1, k), it))
          ELSE [W1 EXCEPT !.iter_fault = TRUE]

iterateChannels_no_copy(W, k, f) == iterate_list(W, k, f, begin_client(clientList(W, k)))

RECURSIVE iterate_copy(_, _, _, _, _)
iterate_copy(W, k, f, copy, it) ==
  IF it = NullClient THEN W
  ELSE iterate_copy(IteratorFunction(W, k, it, f), k, f, copy, increment_client(copy, it))

\* Client_Set::iterateChannels: a copy of the set is iterated
iterateChannels(W, k, f) ==
  LET copy == clientList(W, k)
  IN iterate_copy(W, k, f, copy, begin_client(copy))

\* a call of a function of the live Client_Set s by the application thread
set_call(s, op, W) ==
  /\ client_set[s].live
  /\ cons.pc = "idle"
  /\ calls < MaxCallsSet
  /\ calls' = calls + 1
  /\ Commit(W)
  /\ last' = [NoCall EXCEPT !.op = op, !.c = s]
  /\ UNCHANGED qvars

Set_insert(s, item) ==
  /\ item \in LiveClients \cup {NullClient}
  /\ set_call(s, "insert", Client_Set_insert(World, OfSet(s), item))

Set_remove(s, item) == set_call(s, "remove", Client_Set_remove(World, OfSet(s), item))

Set_insertAllClients(s, other) ==
  /\ other \in SetIds => client_set[other].live
  /\ set_call(s, "insertAllClients", insertAllClients(World, OfSet(s), other))

Set_removeAllClients(s, other) ==
  /\ other \in SetIds => client_set[other].live
  /\ set_call(s, "removeAllClients", removeAllClients(World, OfSet(s), other))

Set_clear(s) == set_call(s, "clear", Client_Set_clear(World, OfSet(s)))

Set_deepClear(s) == set_call(s, "deepClear", deepClear(World, OfSet(s), NullClient))

Set_iterateChannels(s, f) == set_call(s, "iterateChannels", iterateChannels(World, OfSet(s), f))

Set_destroy(s) == set_call(s, "~Client_Set", destroy_set(World, s))

\* Abstract_Client_User::deleteRegisteredChannels
User_deleteRegisteredChannels(u, wild) ==
  /\ calls < MaxCallsSet
  /\ user_call(u, deepClear(World, OfUser(u), wild))

\* SpecSet: the application's Client_Sets, a user and the clients
NextSet ==
  \/ \E s \in SetIds, item \in Clients \cup {NullClient} : Set_insert(s, item)
  \/ \E s \in SetIds, item \in Clients \cup {NullClient} : Set_remove(s, item)
  \/ \E s \in SetIds, other \in SetIds \cup {NullSet} : Set_insertAllClients(s, other)
  \/ \E s \in SetIds, other \in SetIds \cup {NullSet} : Set_removeAllClients(s, other)
  \/ \E s \in SetIds : Set_clear(s)
  \/ \E s \in SetIds : Set_deepClear(s)
  \/ \E s \in SetIds, f \in [Clients -> IterActs] : Set_iterateChannels(s, f)
  \/ \E s \in SetIds : Set_destroy(s)
  \/ \E u \in Users, c \in Clients : calls < MaxCallsSet /\ User_registerClient(u, c)
  \/ \E u \in Users, wild \in Clients \cup {NullClient} : User_deleteRegisteredChannels(u, wild)
  \/ \E u \in Users : calls < MaxCallsSet /\ User_destroy(u)

SpecSet == Init /\ [][NextSet]_vars

\* the library thread that delivers in the specifications with clients
LibraryThreads == {"p1"}

\* Spec: two clients that share the library's handles; connection changes
\* and data are delivered, channels are opened and closed, clients deleted
Next ==
  \/ initialise_buffered_callbacks
  \/ \E p \in LibraryThreads, h \in Chids : ca_connection_event(p, h, TRUE)
  \/ \E p \in LibraryThreads, g \in ca.gets : ca_get_reply(p, g, TRUE)
  \/ \E p \in LibraryThreads, s \in ca.subs : ca_subscription_update(p, s, TRUE)
  \/ \E p \in LibraryThreads : load_element(p)
  \/ process_buffered_callbacks(1)
  \/ unload_element
  \/ dispatch_element
  \/ calls < MaxCallsTwo /\ \E c \in Clients : Client_openChannel(c)
  \/ calls < MaxCallsTwo /\ \E c \in Clients : Client_closeChannel(c)
  \/ calls < MaxCallsTwo /\ \E c \in Clients : Client_destroy(c)

Spec == Init /\ [][Next]_vars

\* SpecData: one client whose reads differ in size
NextData ==
  \/ initialise_buffered_callbacks
  \/ \E p \in LibraryThreads, h \in Chids : ca_connection_event(p, h, TRUE)
  \/ \E p \in LibraryThreads, g \in ca.gets : ca_get_reply(p, g, TRUE)
  \/ \E p \in LibraryThreads, s \in ca.subs : ca_subscription_update(p, s, TRUE)
  \/ \E p \in LibraryThreads : load_element(p)
  \/ process_buffered_callbacks(1)
  \/ unload_element
  \/ dispatch_element
  \/ calls < MaxCallsSpec /\ Client_openChannel("c1")
  \/ calls < MaxCallsSpec /\ Client_closeChannel("c1")
  \/ calls < MaxCallsSpec /\ Client_reopenChannel("c1")
  \/ calls < MaxCallsSpec /\ Client_reReadChannel("c1")
  \/ calls < MaxCallsSpec /\ Client_setRequestCount("c1", 1)
  \/ calls < MaxCallsSpec /\ Client_clearRequestCount("c1")

SpecData == Init /\ [][NextData]_vars

\* SpecPut: one client that writes, with and without acknowledgement
NextPut ==
  \/ initialise_buffered_callbacks
  \/ \E p \in LibraryThreads, h \in Chids : ca_connection_event(p, h, TRUE)
  \/ \E p \in LibraryThreads, status \in {"ECA_NORMAL", "ECA_PUTFAIL"}, ok \in BOOLEAN :
       ca_put_reply(p, status, ok)
  \/ \E p \in LibraryThreads : allocate_fail_store(p)
  \/ \E p \in LibraryThreads : load_element(p)
  \/ process_buffered_callbacks(1)
  \/ unload_element
  \/ dispatch_element
  \/ Client_openChannel("c1")
  \/ Client_closeChannel("c1")
  \/ \E b \in BOOLEAN : Client_setUsePutCallback("c1", b)
  \/ Client_putData("c1")
  \/ Client_clearPendingPutCallback("c1")

SpecPut == Init /\ [][NextPut]_vars

Throw == [act |-> "throw", u |-> End]

\* the scripts in which at most one callback does more than return: the own
\* hook or the handler throws, or a user throws, registers or deregisters
Scripts ==
  {NoScript, [NoScript EXCEPT !.own = Throw], [NoScript EXCEPT !.handler = Throw]}
    \cup {[NoScript EXCEPT !.user[x[1]] = x[2]] : x \in Users \X Acts}
    \cup {[NoScript EXCEPT !.user[x[1]] = [act |-> "deregister", u |-> x[1]],
                            !.wild = x[2]] : x \in Users \X Users}

\* SpecObs: one client, opened once, with registered users and an update
\* handler whose callbacks throw, register and deregister
NextObs ==
  \/ initialise_buffered_callbacks
  \/ \E p \in LibraryThreads, h \in Chids : ca_connection_event(p, h, TRUE)
  \/ \E p \in LibraryThreads, g \in ca.gets : ca_get_reply(p, g, TRUE)
  \/ \E p \in LibraryThreads : load_element(p)
  \/ process_buffered_callbacks(MaxProcess)
  \/ unload_element
  \/ \E script \in Scripts : dispatch(script)
  \/ calls < MaxCallsSpec /\ client["c1"].channel_id = NULL /\ Client_openChannel("c1")
  \/ calls < MaxCallsSpec /\ Client_setUpdateHandler("c1")
  \/ calls < MaxCallsSpec /\ \E u \in Users : User_registerClient(u, "c1")
  \/ calls < MaxCallsSpec /\ \E u \in Users : User_destroy(u)

SpecObs == Init /\ [][NextObs]_vars

\* SpecReg: users and clients are registered, deregistered and destroyed,
\* and the first client is opened and told of its connection
NextReg ==
  \/ initialise_buffered_callbacks
  \/ \E u \in Users, c \in Clients : User_registerClient(u, c)
  \/ \E u \in Users, c \in Clients : User_deregisterClient(u, c)
  \/ \E u \in Users, clientSet \in SUBSET Clients : User_registerAllClients(u, clientSet)
  \/ \E u \in Users, clientSet \in SUBSET Clients : User_deregisterAllClients(u, clientSet)
  \/ \E u \in Users : User_destroy(u)
  \/ \E c \in Clients : Client_destroy(c)
  \/ client["c1"].channel_id = NULL /\ Client_openChannel("c1")
  \/ \E p \in LibraryThreads, h \in Chids : ca_connection_event(p, h, TRUE)
  \/ \E p \in LibraryThreads : load_element(p)
  \/ process_buffered_callbacks(MaxProcess)
  \/ unload_element
  \/ dispatch_element

SpecReg == Init /\ [][NextReg]_vars

\* the metadata of the host's record, and the types and counts of the events
\* of a subscription: a type that is not valid, one that has no case in
\* updateHandler, and no elements
HostMeta == {1, 2}

EventTypes == {"DBR_TIME_DOUBLE", "DBR_INVALID", "DBR_PUT_ACKT"}

\* SpecUpd: one client, with or without a name, and events of every kind
NextUpd ==
  \/ initialise_buffered_callbacks
  \/ \E p \in LibraryThreads, h \in Chids : ca_connection_event(p, h, TRUE)
  \/ \E p \in LibraryThreads, g \in ca.gets, meta \in HostMeta :
       ca_get_reply_meta(p, g, meta, TRUE)
  \/ \E p \in LibraryThreads, s \in ca.subs, type \in EventTypes :
       \E count \in {0, s.count} : ca_subscription_event(p, s, type, count, TRUE)
  \/ \E p \in LibraryThreads : load_element(p)
  \/ process_buffered_callbacks(1)
  \/ unload_element
  \/ dispatch_element
  \/ calls < MaxCallsUpd /\ Client_openChannel_result("c1")
  \/ calls < MaxCallsUpd /\ Client_closeChannel("c1")
  \/ calls < MaxCallsUpd /\ \E pvName \in {"", "PV"}, doImmediateReopen \in BOOLEAN :
                               Client_setPvName("c1", pvName, doImmediateReopen)

SpecUpd == Init /\ [][NextUpd]_vars


(***************************************************************************)
(* Claims about the queue (SpecQ)                                          *)
(***************************************************************************)
Range(f) == {f[i] : i \in DOMAIN f}

SameKey(a, b) ==
  a.kind = "EVENT" /\ b.kind = "EVENT" /\ a.chid = b.chid /\ a.type = b.type
  /\ a.usr = b.usr

\* C1: any two items that are both dispatched are dispatched in the order in
\* which they were appended; the items still queued are in that order too and
\* were all appended after every item dispatched so far.
C1_DispatchInAppendOrder ==
  /\ \A i, j \in DOMAIN dispatched : i < j => dispatched[i] < dispatched[j]
  /\ \A i, j \in DOMAIN linked_list : i < j => linked_list[i].seq < linked_list[j].seq
  /\ \A i \in DOMAIN dispatched, j \in DOMAIN linked_list :
       dispatched[i] < linked_list[j].seq
  /\ cons.pci # NoItem =>
       /\ \A i \in DOMAIN dispatched : dispatched[i] < cons.pci.seq
       /\ \A j \in DOMAIN linked_list : cons.pci.seq < linked_list[j].seq

\* an item appended after a coalesced one has been dispatched after an item
\* appended before it
C1_Witness ==
  /\ Len(dispatched) >= 3
  /\ \E i \in 1..(Len(dispatched) - 1) :
       /\ dispatched[i] + 1 \in coalesced
       /\ dispatched[i + 1] = dispatched[i] + 2

\* C2: a queued CONNECTION or PRINTF item leaves the queue only as the head
\* that the consumer pops (for dispatch or in clear_all); no append removes it.
C2_ConnectionPrintfStayQueued ==
  [][\A i \in DOMAIN linked_list :
       linked_list[i].kind \in {"CONNECTION", "PRINTF"} =>
         \/ \E j \in DOMAIN linked_list' : linked_list'[j] = linked_list[i]
         \/ /\ i = 1
            /\ cons.pc \in {"unload", "clear"}
            /\ linked_list' = Tail(linked_list)
            /\ prod' = prod]_vars

\* a CONNECTION or PRINTF item is queued in front of an update whose append
\* removed a duplicate
C2_Witness ==
  /\ discard_count > 0
  /\ \E i, j \in DOMAIN linked_list :
       /\ i < j
       /\ linked_list[i].kind \in {"CONNECTION", "PRINTF"}
       /\ linked_list[j].kind = "EVENT"
       /\ linked_list[j].above
       /\ \E s \in coalesced : s < linked_list[i].seq

\* C3 (as amended): an EVENT appended while the depth exceeds the limit and a
\* same-key EVENT is queued removes exactly the oldest queued same-key item,
\* is appended at the tail, raises the discard counter by one and leaves the
\* other items in place; the removed item is never dispatched.
C3_CoalesceStep ==
  \A p \in Producers :
    LET new == prod[p]
        m == {i \in DOMAIN linked_list : SameKey(linked_list[i], new)}
    IN (/\ new # NoItem /\ prod'[p] = NoItem
        /\ new.kind = "EVENT"
        /\ Len(linked_list) > multiple_check_limit
        /\ m # {})
       => LET o == CHOOSE i \in m : \A j \in m : i <= j
              n == Len(linked_list)
          IN /\ Len(linked_list') = n
             /\ \A i \in 1..(o - 1) : linked_list'[i] = linked_list[i]
             /\ \A i \in o..(n - 1) : linked_list'[i] = linked_list[i + 1]
             /\ linked_list'[n] = [new EXCEPT !.seq = loads + 1, !.above = TRUE]
             /\ discard_count' = discard_count + 1
             /\ coalesced' = coalesced \cup {linked_list[o].seq}

C3_OldestDuplicateRemoved ==
  /\ [][C3_CoalesceStep]_vars
  /\ [](coalesced \cap Range(dispatched) = {})

\* an update has been appended over the limit and a duplicate removed
C3_Witness ==
  /\ discard_count = 1
  /\ coalesced # {}
  /\ linked_list # <<>>
  /\ linked_list[Len(linked_list)].kind = "EVENT"
  /\ linked_list[Len(linked_list)].above

\* C3 as stated: of two same-key updates queued together, the later appended
\* over the limit, only the later one is ever dispatched.
C3_OnlyLaterDispatched ==
  (cons.pc = "dispatch" /\ cons.pci.kind = "EVENT") =>
     ~ \E j \in DOMAIN linked_list :
         SameKey(linked_list[j], cons.pci) /\ linked_list[j].above

\* SpecFate: one client whose subscription delivers more updates than the
\* duplicate search lets queue, and an application that may clear the queue
MaxItemsFate == 5

MaxCallsFate == 2

NextFate ==
  \/ initialise_buffered_callbacks
  \/ \E p \in LibraryThreads, h \in Chids : ca_connection_event_within(MaxItemsFate, p, h, TRUE)
  \/ \E p \in LibraryThreads, g \in ca.gets : ca_get_reply_within(MaxItemsFate, p, g, 1, TRUE)
  \/ \E p \in LibraryThreads, s \in ca.subs :
       ca_subscription_event_within(MaxItemsFate, p, s, "DBR_TIME_DOUBLE", s.count, TRUE)
  \/ \E p \in LibraryThreads : load_element(p)
  \/ process_buffered_callbacks(MaxProcess)
  \/ unload_element
  \/ dispatch_element
  \/ clear_all_buffered_callbacks
  \/ clear_element
  \/ calls < MaxCallsFate /\ client["c1"].channel_id = NULL /\ Client_openChannel("c1")
  \/ calls < MaxCallsFate /\ client["c1"].channel_id # NULL /\ Client_closeChannel("c1")

SpecFate == Init /\ [][NextFate]_vars

\* SpecTok: one client that writes with acknowledgement and whose channel
\* drops and comes back while replies are outstanding
MaxItemsTok == 4

MaxCallsTok == 4

NextTok ==
  \/ initialise_buffered_callbacks
  \/ \E p \in LibraryThreads, h \in Chids : ca_connection_event_within(MaxItemsTok, p, h, TRUE)
  \/ \E p \in LibraryThreads, g \in ca.gets : ca_get_reply_within(MaxItemsTok, p, g, 1, TRUE)
  \/ \E p \in LibraryThreads : ca_put_reply_within(MaxItemsTok, p, "ECA_NORMAL", TRUE)
  \/ \E p \in LibraryThreads : load_element(p)
  \/ process_buffered_callbacks(1)
  \/ unload_element
  \/ dispatch_element
  \/ calls < MaxCallsTok /\ client["c1"].channel_id = NULL /\ Client_openChannel("c1")
  \/ calls < MaxCallsTok /\ Client_setUsePutCallback("c1", TRUE)
  \/ calls < MaxCallsTok /\ Client_putData("c1")

SpecTok == Init /\ [][NextTok]_vars

(***************************************************************************)
(* Claims about the payload cache (SpecData)                               *)
(***************************************************************************)
QueuedItems == (Range(linked_list) \cup Range(prod) \cup {cons.pci}) \ {NoItem}

\* C4: a Client either holds no heap block and reads from its inline buffer,
\* or holds one live heap block that nothing else refers to and reads from
\* inside it; no block is freed twice, and updateBuffer installs the new
\* reference before it frees the previous block.
C4_PayloadCacheOwnership ==
  /\ ~ fault
  /\ ~ freed_in_use
  /\ \A c \in Clients :
       IF client[c].argsDbr = NULL
         THEN client[c].dataValues = LocalBuffer
         ELSE /\ client[c].dataValues = client[c].argsDbr
              /\ \E x \in heap : x.id = client[c].argsDbr
              /\ \A i \in QueuedItems : i.dbr # client[c].argsDbr
              /\ \A o \in Clients \ {c} : client[o].argsDbr # client[c].argsDbr

\* after one openChannel three notifications were handled, the last one a
\* second large update: it replaced the heap block the first had installed
C4_Witness ==
  /\ calls = 1
  /\ Len(dispatched) = 3
  /\ fired = <<[kind |-> "data", c |-> "c1", arg |-> FALSE]>>
  /\ client["c1"].argsDbr # NULL

\* C5: while data is available the bytes behind the read pointer are those
\* of the most recently accepted payload, and logical_data_size is its size.
C5_ReadableIsLatestPayload ==
  \A c \in Clients :
    dataIsAvailable(c) =>
      /\ rawData(c) = client[c].payload.val
      /\ client[c].logical_data_size
           = dbr_value_size("DBR_TIME_DOUBLE") * client[c].payload.count

\* is_first_update is set when a CONN_UP is applied and cleared when the next
\* payload is accepted: while it is set no payload has been accepted since
\* the most recent connect
NoPayloadSinceConnect(c) ==
  client[c].connectionStatus = "csConnected" /\ client[c].is_first_update

\* C13 (as stated): from a CONN_UP until the next payload is accepted the
\* payload cache is empty - dataIsAvailable () is false and the element count
\* is 0 - whatever came before the CONN_UP; so dataIsAvailable () implies that
\* the Client is Connected and has accepted a payload since it connected.
C13_EmptyFromConnectToPayload ==
  \A c \in Clients :
    /\ NoPayloadSinceConnect(c) =>
         (~ dataIsAvailable(c) /\ client[c].data_element_count = 0)
    /\ dataIsAvailable(c) =>
         (client[c].connectionStatus = "csConnected" /\ ~ client[c].is_first_update)

(***************************************************************************)
(* Claims about validation and connection notifications (Spec)             *)
(***************************************************************************)
\* the step hands cons.pci to its application handler
DispatchStep == cons.pc = "dispatch" /\ cons'.pc # "dispatch"

Hooks == {"connection", "data", "put"}

\* the step changes Client c or calls one of its hooks
Touched(c) ==
  \/ client'[c] # client[c]
  \/ \E i \in DOMAIN fired' : fired'[i].c = c /\ fired'[i].kind \in Hooks

\* the chid is not NULL, its user pointer refers to the live Client c and c's
\* current channel handle is this chid
PassesValidation(c, chid) ==
  /\ chid # NULL
  /\ c \in ca_puser(World, chid)
  /\ client[c].magic_number = MAGIC_NUMBER_C
  /\ client[c].pd_magic_number = MAGIC_NUMBER_P
  /\ client[c].channel_id = chid

\* C6 (as stated): a dispatched notification changes a Client or calls its
\* hooks only if it passes validation for that Client, and a notification that
\* was queued for a Client when its channel was closed is never applied to it.
C6_AppliedOnlyIfValidated ==
  [][DispatchStep =>
       \A c \in Clients :
         Touched(c) => /\ PassesValidation(c, cons.pci.chid)
                       /\ ~ (cons.pci.stale /\ cons.pci.owner = c)]_vars

\* C7 (as stated): a notification produced for the channel of one Client,
\* which has been cleared since, never changes another Client nor calls its
\* hooks, also when that Client's new channel has received the same handle.
C7_StaleNotAppliedToNewOwner ==
  [][(DispatchStep /\ cons.pci.stale) =>
       \A c \in Clients \ {cons.pci.owner} : ~ Touched(c)]_vars

\* the connection hook calls of Client c in the step, in order
ConnectionFired(c) ==
  SelectSeq(fired', LAMBDA d : d.kind = "connection" /\ d.c = c)

\* C10: every call of a Client's connection hook passes the negation of the
\* value passed by the previous call; the first call passes TRUE.
C10_ConnectionAlternates ==
  [][\A c \in Clients :
       \A i \in DOMAIN ConnectionFired(c) :
         ConnectionFired(c)[i].arg =
           IF i > 1 THEN ~ ConnectionFired(c)[i - 1].arg
           ELSE (reported[c] = <<>> \/ ~ reported[c][1])]_vars

\* connected, disconnected and connected again: the third call, with TRUE
C10_Witness ==
  /\ calls = 1
  /\ Len(dispatched) = 3
  /\ fired = <<[kind |-> "connection", c |-> "c1", arg |-> TRUE]>>

\* the step is a call of closeChannel by Client c
CloseStep(c) == last'.op = "closeChannel" /\ last'.c = c

\* what closeChannel leaves behind, whatever the state it is called in: no
\* subscription, no channel handle, no payload, no outstanding write
ClosedAfter(c) ==
  /\ client'[c].event_id = NULL
  /\ client[c].event_id # NULL =>
       /\ client'[c].subFuncArg = NULL
       /\ ~ \E s \in ca'.subs : s.evid = client[c].event_id
  /\ client'[c].channel_id = NULL
  /\ client[c].channel_id # NULL => ~ ca'.chan[client[c].channel_id].live
  /\ client'[c].connectionStatus = "csNull"
  /\ ~ client'[c].pending_put_callback
  /\ client'[c].argsDbr = NULL
  /\ client'[c].dataValues = LocalBuffer
  /\ client'[c].logical_data_size = 0
  /\ client'[c].data_element_count = 0
  /\ client[c].argsDbr # NULL => ~ \E x \in heap' : x.id = client[c].argsDbr

DownApplied(c) ==
  /\ DispatchStep
  /\ cons.pci.kind = "CONNECTION"
  /\ cons.pci.op = "CA_OP_CONN_DOWN"
  /\ PassesValidation(c, cons.pci.chid)

\* the state of Client c after a CONN_DOWN, the subscription token apart
DisconnectedAfter(c) ==
  /\ client'[c].connectionStatus = "csDisconnected"
  /\ client'[c].event_id = NULL
  /\ client[c].event_id # NULL =>
       ~ \E s \in ca'.subs : s.evid = client[c].event_id
  /\ client'[c].getFuncArg = NULL
  /\ client'[c].putFuncArg = NULL
  /\ client'[c].logical_data_size = 0
  /\ client'[c].argsDbr = NULL
  /\ client'[c].dataValues = LocalBuffer
  /\ ~ client'[c].pending_put_callback

\* C12 (as stated): after a CONN_DOWN notification is applied to a Client it
\* is Disconnected, its subscription is cancelled with event_id and the
\* subscription token cleared, the get and put tokens are cleared, the payload
\* is discarded, the outstanding-write flag is false and the connection hook
\* has been called with false.
C12_DownClearsAndReports ==
  [][\A c \in Clients :
       DownApplied(c) =>
         /\ DisconnectedAfter(c)
         /\ client'[c].subFuncArg = NULL
         /\ ConnectionFired(c) = <<[kind |-> "connection", c |-> c, arg |-> FALSE]>>]_vars

PutFired(c) == SelectSeq(fired', LAMBDA d : d.kind = "put" /\ d.c = c)

\* the step handles the acknowledgement of a write of Client c
AckStep(c) ==
  /\ DispatchStep
  /\ cons.pci.kind = "EVENT"
  /\ PassesValidation(c, cons.pci.chid)
  /\ cons.pci.usr = client[c].putFuncArg
  /\ cons.pci.usr # client[c].getFuncArg
  /\ cons.pci.usr # client[c].subFuncArg

ClearStep(c) == last'.op = "clearPendingPutCallback" /\ last'.c = c

\* C9 (as stated): the put hook is called exactly when the outstanding flag
\* falls because an acknowledgement is handled (success: its status is
\* normal) or clearPendingPutCallback is called (success: false); neither
\* does anything while the flag is clear; and once the flag has fallen the
\* next write is accepted.
C9_PutHookWhenFlagFalls ==
  [][\A c \in Clients :
       /\ PutFired(c) # <<>> => (AckStep(c) \/ ClearStep(c))
       /\ AckStep(c) =>
            IF client[c].pending_put_callback
              THEN /\ ~ client'[c].pending_put_callback
                   /\ PutFired(c) = <<[kind |-> "put", c |-> c,
                                       arg |-> cons.pci.status = "ECA_NORMAL"]>>
              ELSE PutFired(c) = <<>> /\ client'[c] = client[c]
       /\ ClearStep(c) =>
            IF client[c].pending_put_callback
              THEN /\ ~ client'[c].pending_put_callback
                   /\ PutFired(c) = <<[kind |-> "put", c |-> c, arg |-> FALSE]>>
              ELSE PutFired(c) = <<>> /\ client'[c] = client[c]
       /\ ((AckStep(c) \/ ClearStep(c)) /\ client[c].pending_put_callback) =>
            /\ client'[c].connectionStatus = "csConnected"
            /\ client'[c].channel_id # NULL
            /\ ~ client'[c].pending_put_callback]_vars

(***************************************************************************)
(* Claims about the delivery of notifications (SpecObs)                    *)
(***************************************************************************)
\* the callbacks called by the step for Client c, in order
Delivered(c) == SelectSeq(delivered', LAMBDA d : d.c = c)

\* the users called, in order
Notified(c) ==
  LET D == SelectSeq(Delivered(c), LAMBDA d : d.to = "user")
  IN [i \in DOMAIN D |-> D[i].user]

\* an exception was caught in the step
Caught(c) == \E i \in DOMAIN fired' : fired'[i].kind = "exception" /\ fired'[i].c = c

\* C14: in the callbacks of one dispatch the Client's own hook comes first,
\* the function-pointer handler last, and the registered users in between;
\* every hook call of a dispatch begins with the own hook.
C14_FixedDeliveryOrder ==
  [][\A c \in Clients :
       LET D == Delivered(c)
       IN /\ \A i \in DOMAIN D :
               /\ D[i].to = "own" <=> i = 1
               /\ D[i].to = "handler" => i = Len(D)
               /\ D[i].kind = D[1].kind /\ D[i].arg = D[1].arg
          /\ \A i \in DOMAIN fired' :
               (fired'[i].kind \in Hooks /\ fired'[i].c = c) =>
                  (D # <<>> /\ D[1].kind = fired'[i].kind /\ D[1].arg = fired'[i].arg)]_vars

\* a data update went to the own hook, to two users and then to the handler
C14_Witness ==
  /\ Len(delivered) = 4
  /\ delivered[1].kind = "data"
  /\ delivered[1].to = "own"
  /\ delivered[2].to = "user"
  /\ delivered[3].to = "user"
  /\ delivered[4].to = "handler"

\* C15 (as stated): a dispatch in which no callback throws notifies exactly
\* the users that were registered when it began, each once, also when a
\* callback registers or deregisters users with the Client, and never uses an
\* iterator of the container that a modification has invalidated.
C15_SnapshotOfUsers ==
  [][\A c \in Clients :
       (Delivered(c) # <<>> /\ ~ Caught(c)) =>
          /\ Range(Notified(c)) = registeredUsers[c]
          /\ Len(Notified(c)) = Cardinality(registeredUsers[c])
          /\ ~ iter_fault']_vars

\* C16 (as stated): when a callback throws during a dispatch, every user that
\* was registered and the function-pointer handler are still called for that
\* event.
C16_RemainingStillCalled ==
  [][\A c \in Clients :
       (Delivered(c) # <<>> /\ Caught(c)) =>
          /\ registeredUsers[c] \subseteq Range(Notified(c))
          /\ Delivered(c)[1].kind \in handler[c] =>
               \E i \in DOMAIN Delivered(c) : Delivered(c)[i].to = "handler"]_vars

\* the step handles an update of Client c during which a callback throws
ThrowingUpdate(c) ==
  /\ DispatchStep
  /\ Caught(c)
  /\ Delivered(c)[1].kind = "data"

\* C17: no exception leaves a dispatch.  A step of the drain loop in which a
\* callback throws still frees the item - unless the Client has taken its
\* block over - clears is_first_update, counts the item and goes on to the
\* next one while fewer than max have been processed.
C17_DrainStep ==
  \A c \in Clients :
    ThrowingUpdate(c) =>
      /\ ~ client'[c].is_first_update
      /\ client'[c].payload.val = cons.pci.val
      /\ \A x \in heap' : x.id = cons.pci.dbr => client'[c].argsDbr = x.id
      /\ dispatched' = Append(dispatched, cons.pci.seq)
      /\ cons' = IF cons.n + 1 >= cons.max THEN Idle
                 ELSE [cons EXCEPT !.pc = "unload", !.n = cons.n + 1, !.pci = NoItem]

C17_ExceptionNeverPropagates ==
  /\ [](~ propagated)
  /\ [][C17_DrainStep]_vars

\* a callback threw while the first of two items was handled, a first
\* update: the loop is about to unload the second
C17_Witness ==
  /\ \E i \in DOMAIN fired : fired[i].kind = "exception"
  /\ delivered # <<>>
  /\ delivered[1].kind = "data"
  /\ delivered[1].arg
  /\ cons.pc = "unload"
  /\ cons.n = 1
  /\ ~ client["c1"].is_first_update

(***************************************************************************)
(* Claims about registration (SpecReg)                                     *)
(***************************************************************************)
\* C18: a user is in a client's registeredUsers exactly if the client is in
\* the user's registeredClients; a destroyed client is in no user's set and a
\* destroyed user in no client's; no destruction reaches a destroyed object,
\* and no callback of a destroyed user is called.
C18_RegistrationSymmetry ==
  /\ \A u \in Users, c \in Clients :
       u \in registeredUsers[c] <=> c \in registeredClients[u]
  /\ \A c \in Clients \ LiveClients :
       registeredUsers[c] = {} /\ \A u \in Users : c \notin registeredClients[u]
  /\ \A u \in Users :
       ~ userLive[u] =>
          registeredClients[u] = {} /\ \A c \in Clients : u \notin registeredUsers[c]
  /\ ~ fault
  /\ \A i \in DOMAIN delivered :
       delivered[i].to = "user" => userLive[delivered[i].user]

\* the first client was destroyed while connected: the second user, registered
\* with both clients, was told of the disconnection and is left with the
\* second client, and the first user has been destroyed
C18_Witness ==
  /\ "c1" \notin LiveClients
  /\ ~ userLive[1]
  /\ \E i \in DOMAIN delivered :
       /\ delivered[i].to = "user"
       /\ delivered[i].user = 2
       /\ delivered[i].kind = "connection"
       /\ ~ delivered[i].arg
  /\ registeredClients[2] = {"c2"}
  /\ registeredUsers["c2"] = {2}

(***************************************************************************)
(* Claims about one call of process_buffered_callbacks (SpecQ)             *)
(***************************************************************************)
\* the step returns from process_buffered_callbacks on an initialised queue
ReturnStep == last'.op = "process_buffered_callbacks" /\ linked_list_mutex # NULL

\* the list held an item when the returning call began
HeldItem == IF cons.pc = "idle" THEN linked_list # <<>> ELSE cons.some

\* the number of items the returning call has dispatched
Processed == Len(dispatched') - (IF cons.pc = "idle" THEN Len(dispatched) ELSE cons.d0)

\* C19: a call of process_buffered_callbacks (max) on an initialised queue
\* that holds an item dispatches at least one item, whatever max is, and a
\* call with max >= 1 dispatches at most max items.
C19_AtLeastOneAtMostMax ==
  [][ReturnStep =>
       /\ HeldItem => Processed >= 1
       /\ last'.max >= 1 => Processed <= last'.max]_vars

\* a call with max <= 0 has returned after dispatching one item, and the list
\* still holds items
C19_Witness ==
  /\ last.op = "process_buffered_callbacks"
  /\ last.max <= 0
  /\ last.n = 1
  /\ Len(dispatched) >= 1
  /\ linked_list # <<>>

DropReturn(p) == fail_reg[p] # NoReg /\ fail_reg'[p] = NoReg

\* C23 (as stated): a handler whose allocation fails leaves the list as it
\* is, and when it returns allocate_fail_count is one more than it was.
C23_DropCountedOnce ==
  [][\A p \in Producers :
       DropReturn(p) =>
          /\ linked_list' = linked_list
          /\ prod' = prod
          /\ allocate_fail_count' = allocate_fail_count + 1]_vars

\* C21: the consumer holds the mutex only inside unload_element, never
\* while an application handler runs; while a handler runs a producer that
\* has an item to load can take the mutex unless another producer holds it,
\* and the application thread can query the queue from the handler.
C21_MutexFreeDuringHandler ==
  /\ mutex_owner = Consumer => cons.pc \in {"unload", "unlock"}
  /\ cons.pc = "dispatch" =>
       /\ mutex_owner \in Producers \cup {NoThread}
       /\ \A p \in Producers :
            (prod[p] # NoItem /\ mutex_owner \notin Producers) =>
               ENABLED load_element_lock(p)
       /\ mutex_owner \notin Producers => ENABLED number_of_buffered_callbacks

\* a producer is inside load_element while a handler runs
C21_Witness ==
  /\ cons.pc = "dispatch"
  /\ mutex_owner = "p1"
  /\ prod["p1"] # NoItem

\* the copies of args.dbr that belong to items the producers have not loaded
ProducerBlocks == {prod[p].dbr : p \in {q \in Producers : prod[q] # NoItem}}

\* the step is a turn of the loop of clear_all_buffered_callbacks, not a step
\* of a producer
ClearTurn ==
  /\ cons.pc = "clear"
  /\ UNCHANGED <<prod, loads, fail_reg, allocate_fail_count>>

\* C22: clear_all_buffered_callbacks called before initialisation changes
\* nothing.  Otherwise each turn of its loop takes the head of the list and
\* frees it, no handler is called, and when it returns the list is empty and
\* no block of a queued item is left; called on an empty list it changes
\* nothing.
C22_ClearDiscardsAll ==
  [][/\ last'.op = "clear_all_buffered_callbacks" =>
          /\ UNCHANGED <<linked_list_mutex, linked_list, heap, dispatched, discard_count,
                         allocate_fail_count, prod, loads>>
          /\ linked_list_mutex = NULL => cons' = cons
     /\ ClearTurn =>
          /\ dispatched' = dispatched
          /\ fired' = <<>>
          /\ linked_list' = (IF linked_list = <<>> THEN <<>> ELSE Tail(linked_list))
          /\ linked_list # <<>> => \A x \in heap' : x.id # Head(linked_list).dbr
          /\ linked_list = <<>> => heap' = heap
          /\ cons'.pc = "idle" <=> linked_list = <<>>
          /\ cons'.pc = "idle" =>
               /\ linked_list' = <<>>
               /\ \A x \in heap' : x.id \in ProducerBlocks]_vars

\* the call has emptied a list of three items, one with a copy of its dbr,
\* and is about to return
C22_Witness ==
  /\ cons.pc = "clear"
  /\ linked_list = <<>>
  /\ loads = 3
  /\ dispatched = <<>>
  /\ coalesced = {}
  /\ heap = {}
  /\ prod = [p \in Producers |-> NoItem]

\* producer p loads an update in this step
LoadsUpdate(p) == prod[p] # NoItem /\ prod'[p] = NoItem /\ prod[p].kind = "EVENT"

\* the list holds an update with the key of producer p's item
HasDuplicate(p) == \E i \in DOMAIN linked_list : SameKey(linked_list[i], prod[p])

\* C24 (as stated): when an update is loaded, a queued update with the same
\* key is removed if the list holds multiple_check_limit items or more, and
\* none is removed if it holds fewer.
C24_SearchedFromLimitOn ==
  [][\A p \in Producers :
       LoadsUpdate(p) =>
          /\ (ellCount(linked_list) >= multiple_check_limit /\ HasDuplicate(p)) =>
                discard_count' = discard_count + 1
          /\ ellCount(linked_list) < multiple_check_limit =>
                discard_count' = discard_count]_vars

(***************************************************************************)
(* Claims about updates and the lifecycle of a Client                      *)
(***************************************************************************)
\* the update hook calls of Client c in the step, in order
DataFired(c) == SelectSeq(fired', LAMBDA d : d.kind = "data" /\ d.c = c)

\* the step applies a CONN_UP to Client c
UpApplied(c) ==
  /\ DispatchStep
  /\ cons.pci.kind = "CONNECTION"
  /\ cons.pci.op = "CA_OP_CONN_UP"
  /\ PassesValidation(c, cons.pci.chid)

C26_FirstUpdateIsMeta ==
  [][\A c \in Clients :
       (DataFired(c) # <<>> /\ DataFired(c)[1].arg) =>
          /\ cons.pci.type = "DBR_CTRL_DOUBLE"
          /\ client'[c].meta = cons.pci.meta]_vars

\* the transitions of the lifecycle state: csNull is Unused
Lifecycle ==
  {<<"csNull", "csPending">>, <<"csPending", "csConnected">>,
   <<"csConnected", "csDisconnected">>, <<"csDisconnected", "csConnected">>}
    \cup {<<s, "csNull">> : s \in {"csPending", "csConnected", "csDisconnected"}}

\* C27 (as stated): the connection status of a Client changes only along
\* Unused -> Pending, Pending -> Connected, Connected -> Disconnected,
\* Disconnected -> Connected and any state -> Unused.
C27_LifecycleTransitions ==
  [][\A c \in Clients :
       client'[c].connectionStatus # client[c].connectionStatus =>
         <<client[c].connectionStatus, client'[c].connectionStatus>> \in Lifecycle]_vars

\* the step is a call of openChannel by Client c
OpenStep(c) == last'.op = "openChannel" /\ last'.c = c

\* the step reports to the diagnostic sink
Reported == \E i \in DOMAIN fired' : fired'[i].kind = "error"

\* C28: openChannel with an empty name returns true and changes nothing, the
\* library's state included; with a name it either returns true, with a new
\* live channel as the Client's channel and the state Pending, or reports,
\* returns false and leaves the Client and the library's state as they were.
C28_OpenChannelOutcomes ==
  [][\A c \in Clients :
       OpenStep(c) =>
         IF client[c].pv_name = ""
           THEN last'.result /\ ca' = ca /\ client' = client /\ ~ Reported
           ELSE \/ /\ last'.result
                   /\ client'[c].connectionStatus = "csPending"
                   /\ client'[c].channel_id # NULL
                   /\ ~ ca.chan[client'[c].channel_id].live
                   /\ ca'.chan[client'[c].channel_id].live
                   /\ ~ Reported
                \/ /\ ~ last'.result
                   /\ Reported
                   /\ ca' = ca
                   /\ client' = client]_vars

\* openChannel has returned true for a Client without a name that is connected
C28_Witness ==
  /\ last.op = "openChannel"
  /\ last.result
  /\ client["c1"].pv_name = ""
  /\ client["c1"].connectionStatus = "csConnected"

\* the step hands an update to updateHandler of Client c: the event passes
\* validation, carries one of the Client's read tokens, ECA_NORMAL and data
UpdateStep(c) ==
  /\ DispatchStep
  /\ cons.pci.kind = "EVENT"
  /\ PassesValidation(c, cons.pci.chid)
  /\ cons.pci.usr \in {client[c].getFuncArg, client[c].subFuncArg}
  /\ cons.pci.status = "ECA_NORMAL"
  /\ cons.pci.dbr # NULL

NotConnected(c) == client[c].connectionStatus # "csConnected"

InvalidType == cons.pci.type = "DBR_INVALID"

ZeroLength == cons.pci.count = 0

\* C29 (as stated): an update with an invalid type, of length zero or for a
\* Client that is not connected changes nothing of the Client, calls no hook
\* and reports nothing.
C29_AnomalyIgnoredSilently ==
  [][\A c \in Clients :
       (UpdateStep(c) /\ (NotConnected(c) \/ InvalidType \/ ZeroLength)) =>
          /\ client'[c] = client[c]
          /\ ~ \E i \in DOMAIN fired' : fired'[i].kind \in Hooks
          /\ ~ Reported]_vars

\* C29 (amended): such an update changes nothing of the Client and calls no
\* hook; it is reported if the Client is not connected or the type is
\* invalid, and only an update of length zero for a connected Client, with a
\* valid type, is ignored silently.
C29_AnomalyIgnored ==
  [][\A c \in Clients :
       (UpdateStep(c) /\ (NotConnected(c) \/ InvalidType \/ ZeroLength)) =>
          /\ client'[c] = client[c]
          /\ ~ \E i \in DOMAIN fired' : fired'[i].kind \in Hooks
          /\ Reported <=> (NotConnected(c) \/ InvalidType)]_vars

\* an update with an invalid type has been dispatched to the connected
\* Client, whose get is still unanswered: reported, nothing else
C29_Witness ==
  /\ last.op = "process_buffered_callbacks"
  /\ fired = <<[kind |-> "error", c |-> NullClient, arg |-> FALSE]>>
  /\ client["c1"].connectionStatus = "csConnected"
  /\ client["c1"].data_field_type # "ClientFieldNO_ACCESS"
  /\ \E g \in ca.gets : g.usr = client["c1"].getFuncArg

\* the step applies an update of the given type to the connected Client c
Applied(c, type) ==
  /\ UpdateStep(c)
  /\ ~ NotConnected(c)
  /\ cons.pci.type = type
  /\ ~ ZeroLength

\* Client c after the step, with the payload cache, the element count, the
\* data field type, the alarm state, the time stamp and the first-update
\* flag as they were before it
PayloadRestored(c) ==
  [client'[c] EXCEPT !.payload = client[c].payload,
                     !.localBuffer = client[c].localBuffer,
                     !.dataValues = client[c].dataValues,
                     !.argsDbr = client[c].argsDbr,
                     !.logical_data_size = client[c].logical_data_size,
                     !.data_element_count = client[c].data_element_count,
                     !.data_field_type = client[c].data_field_type,
                     !.severity = client[c].severity,
                     !.timeStamp = client[c].timeStamp,
                     !.is_first_update = client[c].is_first_update]

SetStep(s, ops) == last'.op \in ops /\ last'.c = s

\* the step deleted no client
NoneDeleted ==
  /\ deletes' = deletes
  /\ \A c \in Clients : client'[c].magic_number = client[c].magic_number

\* the step deleted each member of s once and nothing else, and emptied s
MembersDeleted(s) ==
  /\ \A c \in Clients :
       deletes'[c] = deletes[c] + (IF c \in client_set[s].clientList THEN 1 ELSE 0)
  /\ \A c \in client_set[s].clientList : client'[c].magic_number = 0
  /\ client_set'[s].clientList = {}

\* C31: remove, removeAllClients and clear never delete a client, even in a
\* set with deepDestruction; deepClear and the destructor of a set with
\* deepDestruction delete every member exactly once and leave the set empty;
\* the destructor of a set without deepDestruction deletes no client.
C31_DeletionOnlyByDeepSets ==
  [][\A s \in SetIds :
       /\ SetStep(s, {"remove", "removeAllClients", "clear"}) => NoneDeleted
       /\ (\/ SetStep(s, {"deepClear"})
           \/ SetStep(s, {"~Client_Set"}) /\ client_set[s].deepDestruction)
            => MembersDeleted(s)
       /\ SetStep(s, {"~Client_Set"}) /\ ~ client_set[s].deepDestruction => NoneDeleted]_vars

\* the set with deepDestruction held both clients when it was destroyed, the
\* other set was cleared of them and destroyed
C31_Witness ==
  /\ ~ client_set["s2"].live
  /\ ~ client_set["s1"].live
  /\ \A c \in Clients : deletes[c] = 1 /\ client[c].magic_number = 0
  /\ ~ fault

\* the clients func was called for by the last step, in the order of the calls
Visited == [i \in 1..Len(delivered) |-> delivered[i].c]

\* C32: iterateChannels calls the function exactly once for each client that
\* was a member when the call began, whatever the function inserts into or
\* removes from the set meanwhile; the destructor of a user, which iterates
\* its own set to deregister, leaves none of its clients with it registered.
C32_IterateVisitsEachMemberOnce ==
  [][/\ \A s \in SetIds :
          SetStep(s, {"iterateChannels"}) =>
            /\ Len(delivered') = Cardinality(client_set[s].clientList)
            /\ {delivered'[i].c : i \in 1..Len(delivered')} = client_set[s].clientList
            /\ \A i \in 1..Len(delivered') : delivered'[i].to = "func"
            /\ ~ iter_fault'
     /\ \A u \in Users :
          userLive[u] /\ ~ userLive'[u] =>
            /\ \A c \in registeredClients[u] : u \notin registeredUsers'[c]
            /\ registeredClients'[u] = {}]_vars

\* the function called for c1 removed c2 from the set, and was called for c2
\* all the same
C32_Witness ==
  /\ Visited = <<"c1", "c2">>
  /\ delivered[1].kind = "remove"
  /\ delivered[2].kind = "return"
  /\ "c2" \notin client_set["s1"].clientList

\* the step is a call of deleteRegisteredChannels by user u
DeleteRegisteredStep(u) ==
  /\ userLive[u] /\ userLive'[u]
  /\ \E c \in registeredClients[u] : deletes'[c] # deletes[c]

\* C40: while deepClear iterates its container no element is erased from it,
\* also when it is called by deleteRegisteredChannels; after the call every
\* registered client has been deleted exactly once and the set is empty.
C40_DeepClearKeepsIterator ==
  [][/\ ~ iter_fault'
     /\ \A u \in Users :
          DeleteRegisteredStep(u) =>
            /\ \A c \in Clients :
                 deletes'[c] = deletes[c] + (IF c \in registeredClients[u] THEN 1 ELSE 0)
            /\ registeredClients'[u] = {}]_vars

(***************************************************************************)
(* Claims about the fate of the queued items (SpecFate)                    *)
(***************************************************************************)
\* the items on the list or in the hands of the consumer
QueuedSeqs == {i.seq : i \in (Range(linked_list) \cup {cons.pci}) \ {NoItem}}

\* the items holding a copy of args.dbr
BlockHolders == {i \in QueuedItems : i.dbr # NULL}

\* the blocks the payload caches own
CacheBlocks == {client[c].argsDbr : c \in Clients} \ {NULL}

\* every live block has exactly one owner, an item or a payload cache, every
\* owner's block is live, and no block was freed that was not live
BlocksOwnedOnce ==
  /\ ~ fault
  /\ {x.id : x \in heap} = {i.dbr : i \in BlockHolders} \cup CacheBlocks
  /\ Cardinality(heap) = Cardinality({x.id : x \in heap})
  /\ \A i, j \in BlockHolders : i.dbr = j.dbr => i = j
  /\ \A i \in BlockHolders : i.dbr \notin CacheBlocks
  /\ \A c, o \in Clients : c # o /\ client[c].argsDbr # NULL
                             => client[c].argsDbr # client[o].argsDbr

\* C33: every appended item ends in exactly one of: dispatched once, removed
\* by coalescing, discarded by clear_all_buffered_callbacks, still queued;
\* none is dispatched twice or lost.  Each payload block is freed exactly
\* once: by the queue, or by the payload cache that took it over.
C33_OneFatePerItem ==
  [][/\ IF ClearTurn
          THEN /\ dispatched' = dispatched
               /\ coalesced' = coalesced
               /\ QueuedSeqs' = QueuedSeqs \ (IF linked_list = <<>> THEN {}
                                               ELSE {Head(linked_list).seq})
          ELSE QueuedSeqs' \cup Range(dispatched') \cup coalesced'
                 = QueuedSeqs \cup Range(dispatched) \cup coalesced \cup ((loads + 1)..loads')
     /\ Cardinality(Range(dispatched')) = Len(dispatched')
     /\ QueuedSeqs' \cap (Range(dispatched') \cup coalesced') = {}
     /\ Range(dispatched') \cap coalesced' = {}
     /\ Cardinality(QueuedSeqs') = Len(linked_list') + (IF cons'.pci = NoItem THEN 0 ELSE 1)
     /\ BlocksOwnedOnce']_vars

\* of five items two were dispatched, the second into the payload cache, one
\* was removed by coalescing and two were discarded by clear_all
C33_Witness ==
  /\ loads = 5
  /\ Len(dispatched) = 2
  /\ Cardinality(coalesced) = 1
  /\ linked_list = <<>>
  /\ cons.pc = "idle"
  /\ client["c1"].argsDbr # NULL
  /\ Cardinality(heap) = 1

(***************************************************************************)
(* Claims about the discard counter (SpecDiscard)                          *)
(***************************************************************************)
\* what number_of_discarded_updates returns in this step, 0 in any other step
DiscardsReturned ==
  IF last'.op = "number_of_discarded_updates" THEN last'.n ELSE 0

\* C35: the discard counter is exact under concurrency: the values returned
\* by number_of_discarded_updates and the current counter add up to the
\* number of updates removed by coalescing, that is, in every step what is
\* returned and the change of the counter add up to the updates removed.
C35_DiscardCountExact ==
  [][DiscardsReturned + discard_count' - discard_count
       = Cardinality(coalesced') - Cardinality(coalesced)]_vars

(***************************************************************************)
(* Claims about progress (SpecLive)                                        *)
(***************************************************************************)
\* item k was appended and is neither queued nor dispatched nor coalesced:
\* clear_all_buffered_callbacks has discarded it
Discarded(k) ==
  k <= loads /\ k \notin QueuedSeqs \cup Range(dispatched) \cup coalesced

\* C34: if the application keeps calling process_buffered_callbacks, with any
\* max, every queued item that is not removed by coalescing or by
\* clear_all_buffered_callbacks is eventually dispatched.
C34_QueuedEventuallyDispatched ==
  \A k \in 1..MaxItemsLive :
    (k \in QueuedSeqs) ~> (k \in Range(dispatched) \/ k \in coalesced \/ Discarded(k))

\* the fourth item has been dispatched by a call with a negative max
C34_Witness ==
  /\ MaxItemsLive \in Range(dispatched)
  /\ last.op = "process_buffered_callbacks"
  /\ last.max < 0

(***************************************************************************)
(* Claims about the handles and tokens of a Client                         *)
(***************************************************************************)
\* the live subscriptions made by c: their tokens come from c's channels
SubsOf(c) == {s \in ca.subs : ca.chan[s.chid].live /\ ca.chan[s.chid].puser = c}

\* C36: a Client has at most one live subscription, the one event_id refers
\* to: a subscription is cancelled before the next is created and before the
\* Client is destroyed, also when a CA_OP_CONN_UP is applied twice with no
\* CA_OP_CONN_DOWN between.
C36_OneSubscription ==
  \A c \in Clients :
    /\ Cardinality(SubsOf(c)) <= 1
    /\ \A s \in SubsOf(c) : client[c].event_id = s.evid
    /\ client[c].magic_number # MAGIC_NUMBER_C => SubsOf(c) = {}

\* the live channels created by c
ChannelsOf(c) == {h \in Chids : ca.chan[h].live /\ ca.chan[h].puser = c}

\* C37: a Client has at most one live channel, the one channel_id refers to:
\* a channel created by openChannel is destroyed before the next is created
\* and before the Client is destroyed, also when openChannel is called on a
\* Client whose channel is open.
C37_OneChannel ==
  \A c \in Clients :
    /\ Cardinality(ChannelsOf(c)) <= 1
    /\ \A h \in ChannelsOf(c) : client[c].channel_id = h
    /\ client[c].magic_number # MAGIC_NUMBER_C => ChannelsOf(c) = {}

\* the connection state the consumer of c was told last, before entry i of
\* the hooks the step calls: the last connection entry before i, or what was
\* told before the step; a consumer told nothing counts as told "disconnected"
ToldBefore(c, i) ==
  LET m == {j \in 1..(i - 1) : fired'[j].kind = "connection" /\ fired'[j].c = c}
  IN IF m # {} THEN fired'[CHOOSE j \in m : \A k \in m : k <= j].arg
     ELSE reported[c] = <<TRUE>>

\* every data update of the step is fired while the consumer is told "connected"
DataWhileToldConnected ==
  \A c \in Clients, i \in DOMAIN fired' :
    fired'[i].kind = "data" /\ fired'[i].c = c => ToldBefore(c, i)

\* between the steps what the consumer was told last is what isConnected () says
ToldIsConnected ==
  \A c \in Clients :
    (reported[c] = <<TRUE>>) <=> (client[c].connectionStatus = "csConnected")

\* C38: a data update is dispatched only while the connection state
\* dispatched last is "connected"; equivalently, outside connectionHandler
\* and closeChannel the connection state reported last equals isConnected ().
C38_UpdatesOnlyWhileToldConnected ==
  [][DataWhileToldConnected /\ ToldIsConnected']_vars

\* the tokens of the requests the library holds and of the events under way
TokensIssued ==
  {g.usr : g \in ca.gets} \cup {s.usr : s \in ca.subs}
    \cup {ca.puts[i].usr : i \in DOMAIN ca.puts}
    \cup {i.usr : i \in {q \in QueuedItems : q.kind = "EVENT"}}

\* the step dispatches an event
EventStep == DispatchStep /\ cons.pci.kind = "EVENT"

\* the event was issued during an earlier connection of c: c is not
\* connected, or the token is older than those of the current connection
Late(c) ==
  \/ client[c].connectionStatus # "csConnected"
  \/ cons.pci.usr < client[c].getFuncArg

\* C39: an event of a get, a subscription or a write issued during an earlier
\* connection is not applied after that connection has ended: every
\* CA_OP_CONN_UP applied allocates tokens that no request issued before
\* carries, and a late event changes nothing of the Client, neither payload
\* nor pending flag, and calls none of its hooks.
C39_LateEventsIgnored ==
  [][\A c \in Clients :
       /\ UpApplied(c) =>
            /\ client'[c].getFuncArg \notin TokensIssued \cup {NULL}
            /\ client'[c].putFuncArg \notin TokensIssued \cup {NULL}
            /\ client'[c].subFuncArg \notin TokensIssued
            /\ client'[c].getFuncArg # client'[c].putFuncArg
            /\ client'[c].getFuncArg > client[c].putFuncArg
            /\ client'[c].getFuncArg > client[c].subFuncArg
            /\ client'[c].getFuncArg > client[c].getFuncArg
       /\ EventStep /\ Late(c) => ~ Touched(c)]_vars

\* the acknowledgement of the write issued before the channel dropped was
\* dispatched after the reconnect, while the write issued since is pending:
\* no hook was called and the write is still pending
C39_Witness ==
  /\ calls = 4
  /\ Len(dispatched) = 4
  /\ last.op = "process_buffered_callbacks"
  /\ last.n = 1
  /\ fired = <<>>
  /\ client["c1"].connectionStatus = "csConnected"
  /\ client["c1"].pending_put_callback
  /\ Len(ca.puts) = 1
  /\ ca.puts[1].usr = client["c1"].putFuncArg

====
